---- MODULE Spec2Model ----
(***************************************************************************)
(* Model of the branch-snapshot pipeline of multi_codex/core.py:           *)
(* build_tree_from_paths, read_text_file and collect_branch_markdown.      *)
(*                                                                         *)
(* Strings.  A name or a relative path is a sequence of code points        *)
(* ("a" is <<97>>, "A" is <<65>>, "/" is <<47>>), so that str.lower() and  *)
(* Python's string order are computed, not assumed.  A text (file content, *)
(* rendered document) is a sequence of runs [c, n, p]: n copies of the     *)
(* character c, or one literal chunk c of the source, or (c = "str") the   *)
(* string p.  Bytes are "0x.." and decoded code points "U+....".           *)
(***************************************************************************)
EXTENDS Integers, Sequences, FiniteSets, TLC

VARIABLES
  pc,         \* which operation the specification runs, and where it stands
  paths,      \* build_tree_from_paths: the argument `paths`
  tree_lines, \* build_tree_from_paths: what render_tree returned
  tree_str,   \* build_tree_from_paths: the returned string
  file,       \* read_text_file: the bytes of the file at `path`
  io,         \* read_text_file: the I/O operation that fails on this file
  rd,         \* read_text_file: what the call did and returned
  fs,         \* collect_branch_markdown: the working tree, file path -> [data, fail]
  stack,      \* collect_branch_markdown: the directories os.walk has still to yield
  visited,    \* collect_branch_markdown: the directories os.walk has yielded
  read_log,   \* collect_branch_markdown: the calls of read_text_file, in order
  file_entries, \* collect_branch_markdown: file_entries
  doc_lines,  \* collect_branch_markdown: lines
  snapshot,   \* collect_branch_markdown: the returned string
  again,      \* collect_branch_markdown: this is the second call on the same tree
  prev_text,  \* collect_branch_markdown: what the first call returned
  call,       \* prompt builders: the function called and its arguments
  git,        \* the repository: which git command fails, which refs exist, the diff
  git_log,    \* the git commands run so far, in order
  opened,     \* load_prompt: the resource files opened so far
  dr,         \* compute_branch_diff: the DiffResult returned
  out,        \* prompt builders: what the call raised or returned
  asked,      \* load_prompt: the names it was called with, in order
  input_reads, \* terminal: how many lines of the user's input were read
  printed,    \* terminal: the messages printed, in order
  commands,   \* copy_to_clipboard: the commands run, in order
  value,      \* the value a function of the terminal layer returned
  folder,     \* run_compare: the files of the report directory
  origin,     \* the remote repository: branch -> commit
  tracking,   \* the local repository: refs/remotes/origin/<branch> -> commit
  seen_branches,   \* monitor_branches: seen_branches
  selected,        \* monitor_branches: the keys of selected, in insertion order
  remote_branches, \* monitor_branches: remote_branches
  new_branches,    \* monitor_branches: the branches of this poll still to offer
  events,     \* monitor_branches: the polls, questions and interrupts so far
  local,      \* the local repository: refs/heads/<branch> -> commit
  worktree,   \* the local repository: the branch and commit checked out
  at_fetch,   \* collect_branch_markdown: what origin held when this call fetched
  diffed,     \* compute_branch_diff: the commits the diff command compared
  done_calls  \* the calls on the repository that have ended, with what each read

treeVars == <<paths, tree_lines, tree_str>>
readVars == <<file, io, rd>>
walkVars == <<fs, stack, visited, read_log, file_entries, doc_lines, snapshot, again, prev_text>>
asmVars == <<call, git, git_log, opened, dr, out, asked>>
uiVars == <<input_reads, printed, commands, value, folder>>
remoteVars == <<origin, tracking>>
monVars == <<seen_branches, selected, remote_branches, new_branches, events>>
repoVars == <<local, worktree, at_fetch, diffed, done_calls>>
shellVars == <<uiVars, remoteVars, monVars, repoVars>>
vars == <<pc, paths, tree_lines, tree_str, file, io, rd,
          fs, stack, visited, read_log, file_entries, doc_lines, snapshot, again, prev_text,
          call, git, git_log, opened, dr, out, asked,
          input_reads, printed, commands, value, folder, origin, tracking,
          seen_branches, selected, remote_branches, new_branches, events,
          local, worktree, at_fetch, diffed, done_calls>>

\* the variables of an operation the specification does not run
TreeIdle == paths = <<>> /\ tree_lines = <<>> /\ tree_str = <<>>
WalkIdle ==
  /\ fs = <<>> /\ stack = <<>> /\ visited = {} /\ read_log = <<>>
  /\ file_entries = <<>> /\ doc_lines = <<>> /\ snapshot = <<>>
  /\ again = FALSE /\ prev_text = <<>>
AsmIdle ==
  /\ call = [op |-> "none"] /\ git = [fail |-> 0] /\ git_log = <<>>
  /\ opened = <<>> /\ dr = [none |-> TRUE]
  /\ out = [exc |-> "", returned |-> FALSE, text |-> <<>>]
  /\ asked = <<>>

\* no value: the function has not returned
PyUnset == [kind |-> "unset", s |-> <<>>, b |-> FALSE]
\* no ref, no commit
NoRefs == [b \in {} |-> 0]
NoCommit == [branch |-> <<>>, commit |-> 0]
UiIdle ==
  /\ input_reads = 0 /\ printed = <<>> /\ commands = <<>> /\ value = PyUnset /\ folder = {}
RemoteIdle == origin = NoRefs /\ tracking = NoRefs
MonIdle ==
  /\ seen_branches = {} /\ selected = <<>> /\ remote_branches = {}
  /\ new_branches = <<>> /\ events = <<>>
RepoIdle ==
  /\ local = NoRefs /\ worktree = NoCommit /\ at_fetch = NoRefs
  /\ diffed = NoCommit /\ done_calls = <<>>
ShellIdle == UiIdle /\ RemoteIdle /\ MonIdle /\ RepoIdle

----------------------------------------------------------------------------
(* Bounds of the model *)

\* the most files the working tree of collect_branch_markdown holds
MaxFiles == 2
\* the longest `paths` list given to build_tree_from_paths
MaxPaths == 3
\* the most segments a relative path has
MaxDepth == 2

----------------------------------------------------------------------------
(* Strings as code points *)

\* os.sep on the platforms the tool runs on: "/"
SEP == <<47>>

\* str.lower() on one ASCII code point
LowerChar(c) == IF c >= 65 /\ c <= 90 THEN c + 32 ELSE c

\* str.lower()
Lower(s) == [i \in 1..Len(s) |-> LowerChar(s[i])]

\* Python's s < t on strings: lexicographic by code point, a proper prefix first
RECURSIVE StrLess(_, _)
StrLess(s, t) ==
  IF Len(t) = 0 THEN FALSE
  ELSE IF Len(s) = 0 THEN TRUE
  ELSE IF s[1] # t[1] THEN s[1] < t[1]
  ELSE StrLess(Tail(s), Tail(t))

StrLessEq(s, t) == s = t \/ StrLess(s, t)

\* os.sep.join(parts)
RECURSIVE JoinSep(_)
JoinSep(parts) ==
  IF Len(parts) = 0 THEN <<>>
  ELSE IF Len(parts) = 1 THEN parts[1]
  ELSE parts[1] \o SEP \o JoinSep(Tail(parts))

\* path.split(os.sep): `cur` is the segment being read
RECURSIVE SplitFrom(_, _)
SplitFrom(s, cur) ==
  IF Len(s) = 0 THEN <<cur>>
  ELSE IF <<s[1]>> = SEP THEN <<cur>> \o SplitFrom(Tail(s), <<>>)
  ELSE SplitFrom(Tail(s), Append(cur, s[1]))

Split(s) == SplitFrom(s, <<>>)

----------------------------------------------------------------------------
(* sorted(items, key=...): a stable sort.  A key is [flag, s]: the tuple    *)
(* (flag, s) of a bool and a str, or the str s alone (flag is then FALSE).  *)

\* key1 <= key2 on tuples: by the first component (False < True), then the second
KeyLeq(k1, k2) ==
  IF k1.flag # k2.flag THEN k2.flag
  ELSE StrLessEq(k1.s, k2.s)

\* items[i], whose key is keys[i], moves to the place given by the number of
\* items with a smaller key, plus the number of earlier items with an equal key
StableSort(items, keys) ==
  LET n == Len(items)
      before(j, i) == IF KeyLeq(keys[i], keys[j]) THEN KeyLeq(keys[j], keys[i]) /\ j < i
                      ELSE TRUE
      place(i) == Cardinality({j \in 1..n : j # i /\ before(j, i)}) + 1
  IN [r \in 1..n |-> items[CHOOSE i \in 1..n : place(i) = r]]

----------------------------------------------------------------------------
(* build_tree_from_paths.  A dict is the sequence of its items in insertion *)
(* order; an item is [name, isfile, child]: isfile stands for the value     *)
(* None, and child is the nested dict of a directory.                       *)

FileItem(name) == [name |-> name, isfile |-> TRUE, child |-> <<>>]
DirItem(name, child) == [name |-> name, isfile |-> FALSE, child |-> child]

\* the index of key `name` in dict d, 0 when absent
KeyIndex(d, name) ==
  IF \E i \in 1..Len(d) : d[i].name = name
  THEN CHOOSE i \in 1..Len(d) : d[i].name = name
  ELSE 0

\* node[name] = None: an existing key keeps its place
SetNone(d, name) ==
  LET i == KeyIndex(d, name)
  IN IF i = 0 THEN Append(d, FileItem(name))
     ELSE [d EXCEPT ![i] = FileItem(name)]

\* insert_path on the segments `parts`; [raised, d]: raised when a segment
\* that must be a directory is already a file (None has no setdefault)
RECURSIVE insert_parts(_, _)
insert_parts(node, parts) ==
  IF Len(parts) = 1 THEN [raised |-> FALSE, d |-> SetNone(node, parts[1])]
  ELSE LET i == KeyIndex(node, parts[1])
       IN IF i = 0
          THEN LET sub == insert_parts(<<>>, Tail(parts))
               IN [raised |-> sub.raised,
                   d |-> Append(node, DirItem(parts[1], sub.d))]
          ELSE IF node[i].isfile
          THEN [raised |-> TRUE, d |-> node]
          ELSE LET sub == insert_parts(node[i].child, Tail(parts))
               IN [raised |-> sub.raised,
                   d |-> [node EXCEPT ![i] = DirItem(parts[1], sub.d)]]

insert_path(tree, path) == insert_parts(tree, Split(path))

\* the loop `for path in paths: insert_path(tree, path)`
RECURSIVE insert_all(_, _)
insert_all(tree, ps) ==
  IF Len(ps) = 0 THEN [raised |-> FALSE, d |-> tree]
  ELSE LET r == insert_path(tree, ps[1])
       IN IF r.raised THEN r ELSE insert_all(r.d, Tail(ps))

\* the mutant of TreeKey: the names are compared as they are
TreeKey_CaseSensitive(item) == [flag |-> item.isfile, s |-> item.name]

\* the sort key of render_tree: (item[1] is None, item[0].lower())
TreeKey(item) == [flag |-> item.isfile, s |-> Lower(item.name)]

\* the lines of render_tree, each [prefix, last, name]: prefix is the
\* sequence of extensions ("bar" is "|   ", "blank" is "    "), last says
\* which connector the line carries
RECURSIVE render_tree(_, _)
RECURSIVE render_entries(_, _, _)
render_entries(entries, idx, prefix) ==
  IF idx > Len(entries) THEN <<>>
  ELSE LET last == (idx = Len(entries))
           item == entries[idx]
           line == [prefix |-> prefix, last |-> last, name |-> item.name]
           below == IF item.isfile THEN <<>>
                    ELSE render_tree(item.child,
                                     Append(prefix, IF last THEN "blank" ELSE "bar"))
       IN <<line>> \o below \o render_entries(entries, idx + 1, prefix)

render_tree(tree, prefix) ==
  render_entries(StableSort(tree, [i \in 1..Len(tree) |-> TreeKey(tree[i])]), 1, prefix)

----------------------------------------------------------------------------
(* Texts *)

Chr(c, n) == [c |-> c, n |-> n, p |-> <<>>]
Lit(c) == [c |-> c, n |-> 1, p |-> <<>>]
Str(s) == [c |-> "str", n |-> 1, p |-> s]
NL == Chr("U+000A", 1)
SP(n) == Chr("U+0020", n)

\* "\n".join(lines), each line a text
RECURSIVE JoinLines(_)
JoinLines(lines) ==
  IF Len(lines) = 0 THEN <<>>
  ELSE IF Len(lines) = 1 THEN lines[1]
  ELSE lines[1] \o <<NL>> \o JoinLines(Tail(lines))

\* f"{prefix}{connector}{name}"
RECURSIVE PrefixText(_)
PrefixText(prefix) ==
  IF Len(prefix) = 0 THEN <<>>
  ELSE (IF prefix[1] = "bar" THEN <<Lit("|"), SP(3)>> ELSE <<SP(4)>>)
       \o PrefixText(Tail(prefix))

TreeLineText(line) ==
  PrefixText(line.prefix)
    \o <<Lit(IF line.last THEN "L--" ELSE "+--"), SP(1), Str(line.name)>>

\* build_tree_from_paths: [raised, lines, str]
build_tree_from_paths(repo_name, ps) ==
  LET t == insert_all(<<>>, ps)
      rendered == IF t.raised THEN <<>> ELSE render_tree(t.d, <<>>)
  IN [raised |-> t.raised,
      lines |-> rendered,
      str |-> JoinLines(<<<<Str(repo_name)>>>>
                        \o [i \in 1..Len(rendered) |-> TreeLineText(rendered[i])])]

----------------------------------------------------------------------------
(* read_text_file.  The bytes of a file are a sequence of runs [b, n]: n    *)
(* copies of byte b.  `fail` names the one I/O operation that fails with an *)
(* OSError when the call reaches it ("none": every operation succeeds).     *)

MAX_FILE_SIZE_BYTES == 200 * 1024

\* the length of the sample read for the binary test: f.read(4096)
SAMPLE_BYTES == 4096

\* the mutant of TooLarge: the threshold itself is excluded
TooLarge_AtThreshold(size) == size >= MAX_FILE_SIZE_BYTES

\* size > MAX_FILE_SIZE_BYTES
TooLarge(size) == size > MAX_FILE_SIZE_BYTES

RECURSIVE Size(_)
Size(data) == IF Len(data) = 0 THEN 0 ELSE data[1].n + Size(Tail(data))

\* f.read(k) on a file opened "rb": the first k bytes
RECURSIVE ReadBytes(_, _)
ReadBytes(data, k) ==
  IF k = 0 \/ Len(data) = 0 THEN <<>>
  ELSE IF data[1].n <= k THEN <<data[1]>> \o ReadBytes(Tail(data), k - data[1].n)
  ELSE <<[b |-> data[1].b, n |-> k]>>

\* the mutant of read_sample: one byte short
read_sample_short(data) == ReadBytes(data, SAMPLE_BYTES - 1)

\* sample = f.read(4096)
read_sample(data) == ReadBytes(data, SAMPLE_BYTES)

is_binary_content(sample) == \E i \in 1..Len(sample) : sample[i].b = "0x00"

\* the code point of an ASCII byte
AsciiPoint(b) ==
  CASE b = "0x00" -> "U+0000"
    [] b = "0x0A" -> "U+000A"
    [] b = "0x20" -> "U+0020"
    [] b = "0x78" -> "U+0078"

IsAscii(b) == b \in {"0x00", "0x0A", "0x20", "0x78"}

\* bytes.decode("latin-1"): every byte is the code point of the same number
Latin1Point(b) ==
  CASE IsAscii(b) -> AsciiPoint(b)
    [] b = "0xA9" -> "U+00A9"
    [] b = "0xC3" -> "U+00C3"
    [] b = "0xE9" -> "U+00E9"

Latin1Decode(data) == [i \in 1..Len(data) |-> Chr(Latin1Point(data[i].b), data[i].n)]

\* bytes.decode("utf-8"): [ok, text].  0xC3 0xA9 is U+00E9; a lead byte that
\* no continuation byte follows, or a continuation byte alone, is an error
RECURSIVE Utf8Decode(_)
Utf8Decode(data) ==
  IF Len(data) = 0 THEN [ok |-> TRUE, text |-> <<>>]
  ELSE LET r == data[1]
       IN IF IsAscii(r.b)
          THEN LET rest == Utf8Decode(Tail(data))
               IN [ok |-> rest.ok, text |-> <<Chr(AsciiPoint(r.b), r.n)>> \o rest.text]
          ELSE IF /\ r.b = "0xC3" /\ r.n = 1 /\ Len(data) >= 2
                  /\ data[2].b = "0xA9" /\ data[2].n = 1
          THEN LET rest == Utf8Decode(Tail(Tail(data)))
               IN [ok |-> rest.ok, text |-> <<Chr("U+00E9", 1)>> \o rest.text]
          ELSE [ok |-> FALSE, text |-> <<>>]

\* how a block of code ends: by return (none: the value is None) or by an
\* exception; ops lists the I/O operations it made, in order
Returned(none, text, ops) ==
  [exc |-> "", none |-> none, text |-> text, ops |-> ops]
Raised(exc, ops) ==
  [exc |-> exc, none |-> TRUE, text |-> <<>>, ops |-> ops]

\* the body of the outer try
ReadTry(data, fail) ==
  IF fail = "stat" THEN Raised("OSError", <<"stat">>)
  ELSE IF TooLarge(Size(data)) THEN Returned(TRUE, <<>>, <<"stat">>)
  ELSE IF fail = "open_rb" THEN Raised("OSError", <<"stat", "open_rb">>)
  ELSE IF fail = "read_sample"
  THEN Raised("OSError", <<"stat", "open_rb", "read_sample">>)
  ELSE IF is_binary_content(read_sample(data))
  THEN Returned(TRUE, <<>>, <<"stat", "open_rb", "read_sample">>)
  ELSE IF fail = "open_utf8"
  THEN Raised("OSError", <<"stat", "open_rb", "read_sample", "open_utf8">>)
  ELSE IF fail = "read_utf8"
  THEN Raised("OSError", <<"stat", "open_rb", "read_sample", "open_utf8", "read_utf8">>)
  ELSE LET d == Utf8Decode(data)
           ops == <<"stat", "open_rb", "read_sample", "open_utf8", "read_utf8">>
       IN IF d.ok THEN Returned(FALSE, d.text, ops)
          ELSE Raised("UnicodeDecodeError", ops)

\* the mutant of ReadLatin1: the file is given up instead of read again
ReadLatin1_GiveUp(data, fail, ops) == Returned(TRUE, <<>>, ops)

\* the body of the try inside `except UnicodeDecodeError`
ReadLatin1(data, fail, ops) ==
  IF fail = "open_latin1" THEN Raised("OSError", Append(ops, "open_latin1"))
  ELSE IF fail = "read_latin1"
  THEN Raised("OSError", ops \o <<"open_latin1", "read_latin1">>)
  ELSE Returned(FALSE, Latin1Decode(data), ops \o <<"open_latin1", "read_latin1">>)

\* the mutant of Latin1Handler: the exception of the retry is not caught
Latin1Handler_Uncaught(r) == r

\* `except Exception: return None` around the Latin-1 retry
Latin1Handler(r) == IF r.exc # "" THEN Returned(TRUE, <<>>, r.ops) ELSE r

\* the handlers of the outer try
read_text_file(data, fail) ==
  LET body == ReadTry(data, fail)
  IN IF body.exc = "" THEN body
     ELSE IF body.exc = "UnicodeDecodeError"
     THEN Latin1Handler(ReadLatin1(data, fail, body.ops))
     ELSE Returned(TRUE, <<>>, body.ops)

----------------------------------------------------------------------------
(* The inputs of read_text_file *)

FILL == "0x78"

\* adjacent runs of the same byte are one run, and no run is empty
RECURSIVE Canon(_)
Canon(runs) ==
  IF Len(runs) = 0 THEN <<>>
  ELSE IF runs[1].n = 0 THEN Canon(Tail(runs))
  ELSE LET rest == Canon(Tail(runs))
       IN IF Len(rest) > 0 /\ rest[1].b = runs[1].b
          THEN <<[b |-> runs[1].b, n |-> runs[1].n + rest[1].n]>> \o Tail(rest)
          ELSE <<runs[1]>> \o rest

Single(bs) == [i \in 1..Len(bs) |-> [b |-> bs[i], n |-> 1]]

\* a file of `size` bytes "x", with the bytes bs1 at offset pos1 and bs2 at pos2
MkFile(size, pos1, bs1, pos2, bs2) ==
  Canon(<<[b |-> FILL, n |-> pos1]>> \o Single(bs1)
        \o <<[b |-> FILL, n |-> pos2 - (pos1 + Len(bs1))]>> \o Single(bs2)
        \o <<[b |-> FILL, n |-> size - (pos2 + Len(bs2))]>>)

FileSizes ==
  {0, 2, SAMPLE_BYTES - 1, SAMPLE_BYTES, SAMPLE_BYTES + 2,
   MAX_FILE_SIZE_BYTES - 1, MAX_FILE_SIZE_BYTES, MAX_FILE_SIZE_BYTES + 1}

\* what stands out of the filler: nothing, a NUL, a lone 0xE9 (not UTF-8),
\* the UTF-8 encoding of U+00E9
ByteMarks == {<<>>, <<"0x00">>, <<"0xE9">>, <<"0xC3", "0xA9">>}

\* one mark inside the sample (at its first or last byte), one after it
ReadFiles ==
  {MkFile(t[1], t[2], t[3], t[4], t[5]) :
     t \in {u \in FileSizes \X {0, SAMPLE_BYTES - 1} \X ByteMarks
                  \X {SAMPLE_BYTES, SAMPLE_BYTES + 1} \X ByteMarks :
              /\ u[2] + Len(u[3]) <= u[4]
              /\ u[4] + Len(u[5]) <= u[1]}}
     \cup
  {MkFile(t[1], t[2], t[3], t[1], <<>>) :
     t \in {u \in FileSizes \X {0, SAMPLE_BYTES - 1} \X ByteMarks :
              u[2] + Len(u[3]) <= u[1]}}
     \cup
  {MkFile(size, 0, <<>>, size, <<>>) : size \in FileSizes}

IoFailures ==
  {"none", "stat", "open_rb", "read_sample", "open_utf8", "read_utf8",
   "open_latin1", "read_latin1"}

NotRead == Returned(TRUE, <<>>, <<>>)

ReadIdle == file = <<>> /\ io = "none" /\ rd = NotRead

InitRead ==
  /\ pc = "read_call"
  /\ file \in ReadFiles
  /\ io \in IoFailures
  /\ rd = NotRead
  /\ TreeIdle
  /\ WalkIdle
  /\ AsmIdle
  /\ ShellIdle

\* one call of read_text_file(path)
ReadFile ==
  /\ pc = "read_call"
  /\ rd' = read_text_file(file, io)
  /\ pc' = IF rd'.exc # "" THEN "read_raised" ELSE "read_done"
  /\ UNCHANGED <<file, io, treeVars, walkVars, asmVars, shellVars>>

NextRead == ReadFile

SpecRead == InitRead /\ [][NextRead]_vars

----------------------------------------------------------------------------
(* The inputs of build_tree_from_paths *)

\* "repo"
RepoName == <<114, 101, 112, 111>>

\* directory names "D", "d" and file names "a", "B"
DirNames == {<<68>>, <<100>>}
FileNames == {<<97>>, <<66>>}

SeqsUpTo(S, n) == UNION {[1..k -> S] : k \in 0..n}

\* the relative paths of files at most MaxDepth segments deep
RelPaths ==
  {JoinSep(Append(ds, f)) : ds \in SeqsUpTo(DirNames, MaxDepth - 1), f \in FileNames}

\* lists of distinct paths (a set of paths, in some order)
PathLists ==
  {ps \in SeqsUpTo(RelPaths, MaxPaths) :
     \A i, j \in 1..Len(ps) : i # j => ps[i] # ps[j]}

InitTree ==
  /\ pc = "tree_call"
  /\ paths \in PathLists
  /\ tree_lines = <<>>
  /\ tree_str = <<>>
  /\ ReadIdle
  /\ WalkIdle
  /\ AsmIdle
  /\ ShellIdle

\* one call of build_tree_from_paths(repo_name, paths)
BuildTree ==
  /\ pc = "tree_call"
  /\ LET r == build_tree_from_paths(RepoName, paths)
     IN /\ tree_lines' = r.lines
        /\ tree_str' = r.str
        /\ pc' = IF r.raised THEN "tree_raised" ELSE "tree_done"
  /\ UNCHANGED <<paths, readVars, walkVars, asmVars, shellVars>>

NextTree == BuildTree

SpecTree == InitTree /\ [][NextTree]_vars

----------------------------------------------------------------------------
(* collect_branch_markdown, from the return of sync_remote_branch on.  The  *)
(* working tree is a function from file paths (sequences of names, the last *)
(* one the file's) to [data, fail]: the bytes of the file, and the I/O      *)
(* operation that fails when the file is read.                              *)

\* APP_DIR_NAME = ".multi_codex"
APP_DIR_NAME == <<46, 109, 117, 108, 116, 105, 95, 99, 111, 100, 101, 120>>

IGNORED_DIRS ==
  {<<46, 103, 105, 116>>,  \* .git
   <<110, 111, 100, 101, 95, 109, 111, 100, 117, 108, 101, 115>>,  \* node_modules
   <<100, 105, 115, 116>>,  \* dist
   <<98, 117, 105, 108, 100>>,  \* build
   <<46, 118, 101, 110, 118>>,  \* .venv
   <<118, 101, 110, 118>>,  \* venv
   <<95, 95, 112, 121, 99, 97, 99, 104, 101, 95, 95>>,  \* __pycache__
   <<46, 105, 100, 101, 97>>,  \* .idea
   <<46, 118, 115, 99, 111, 100, 101>>}  \* .vscode

\* the items of LANGUAGE_EXTENSIONS, in the order of the dict
LANGUAGE_EXTENSIONS ==
  <<[ext |-> <<46, 112, 121>>, lang |-> <<112, 121, 116, 104, 111, 110>>],  \* .py: python
    [ext |-> <<46, 106, 115>>, lang |-> <<106, 97, 118, 97, 115, 99, 114, 105, 112, 116>>],  \* .js: javascript
    [ext |-> <<46, 116, 115>>, lang |-> <<116, 121, 112, 101, 115, 99, 114, 105, 112, 116>>],  \* .ts: typescript
    [ext |-> <<46, 116, 115, 120>>, lang |-> <<116, 115, 120>>],  \* .tsx: tsx
    [ext |-> <<46, 106, 115, 120>>, lang |-> <<106, 115, 120>>],  \* .jsx: jsx
    [ext |-> <<46, 114, 115>>, lang |-> <<114, 117, 115, 116>>],  \* .rs: rust
    [ext |-> <<46, 103, 111>>, lang |-> <<103, 111>>],  \* .go: go
    [ext |-> <<46, 106, 97, 118, 97>>, lang |-> <<106, 97, 118, 97>>],  \* .java: java
    [ext |-> <<46, 107, 116>>, lang |-> <<107, 111, 116, 108, 105, 110>>],  \* .kt: kotlin
    [ext |-> <<46, 115, 119, 105, 102, 116>>, lang |-> <<115, 119, 105, 102, 116>>],  \* .swift: swift
    [ext |-> <<46, 99>>, lang |-> <<99>>],  \* .c: c
    [ext |-> <<46, 99, 112, 112>>, lang |-> <<99, 112, 112>>],  \* .cpp: cpp
    [ext |-> <<46, 99, 99>>, lang |-> <<99, 112, 112>>],  \* .cc: cpp
    [ext |-> <<46, 104>>, lang |-> <<99>>],  \* .h: c
    [ext |-> <<46, 104, 112, 112>>, lang |-> <<99, 112, 112>>],  \* .hpp: cpp
    [ext |-> <<46, 99, 115>>, lang |-> <<99, 115, 104, 97, 114, 112>>],  \* .cs: csharp
    [ext |-> <<46, 114, 98>>, lang |-> <<114, 117, 98, 121>>],  \* .rb: ruby
    [ext |-> <<46, 112, 104, 112>>, lang |-> <<112, 104, 112>>],  \* .php: php
    [ext |-> <<46, 104, 116, 109, 108>>, lang |-> <<104, 116, 109, 108>>],  \* .html: html
    [ext |-> <<46, 99, 115, 115>>, lang |-> <<99, 115, 115>>],  \* .css: css
    [ext |-> <<46, 115, 99, 115, 115>>, lang |-> <<115, 99, 115, 115>>],  \* .scss: scss
    [ext |-> <<46, 109, 100>>, lang |-> <<109, 97, 114, 107, 100, 111, 119, 110>>],  \* .md: markdown
    [ext |-> <<46, 116, 120, 116>>, lang |-> <<116, 101, 120, 116>>],  \* .txt: text
    [ext |-> <<46, 106, 115, 111, 110>>, lang |-> <<106, 115, 111, 110>>],  \* .json: json
    [ext |-> <<46, 121, 97, 109, 108>>, lang |-> <<121, 97, 109, 108>>],  \* .yaml: yaml
    [ext |-> <<46, 121, 109, 108>>, lang |-> <<121, 97, 109, 108>>],  \* .yml: yaml
    [ext |-> <<46, 116, 111, 109, 108>>, lang |-> <<116, 111, 109, 108>>],  \* .toml: toml
    [ext |-> <<46, 105, 110, 105>>, lang |-> <<105, 110, 105>>],  \* .ini: ini
    [ext |-> <<46, 99, 102, 103>>, lang |-> <<105, 110, 105>>],  \* .cfg: ini
    [ext |-> <<46, 115, 104>>, lang |-> <<98, 97, 115, 104>>],  \* .sh: bash
    [ext |-> <<46, 98, 97, 115, 104>>, lang |-> <<98, 97, 115, 104>>],  \* .bash: bash
    [ext |-> <<46, 115, 113, 108>>, lang |-> <<115, 113, 108>>] >>  \* .sql: sql

\* "main"
BranchName == <<109, 97, 105, 110>>

WHITESPACE == {"U+0009", "U+000A", "U+000D", "U+0020"}
WhitespaceCodes == {9, 10, 11, 12, 13, 32}

\* str.rstrip() on a string of code points
RECURSIVE RStripCodes(_)
RStripCodes(s) ==
  IF Len(s) = 0 THEN s
  ELSE IF s[Len(s)] \in WhitespaceCodes THEN RStripCodes(SubSeq(s, 1, Len(s) - 1))
  ELSE s

\* str.rstrip() on a text
RECURSIVE RStrip(_)
RStrip(t) ==
  IF Len(t) = 0 THEN t
  ELSE LET r == t[Len(t)]
           front == SubSeq(t, 1, Len(t) - 1)
       IN IF r.c = "str"
          THEN (IF Len(RStripCodes(r.p)) = 0 THEN RStrip(front)
                ELSE Append(front, Str(RStripCodes(r.p))))
          ELSE IF r.c \in WHITESPACE THEN RStrip(front)
          ELSE t

\* path_str.endswith(ext)
EndsWith(s, ext) ==
  Len(ext) <= Len(s) /\ SubSeq(s, Len(s) - Len(ext) + 1, Len(s)) = ext

\* guess_language_from_path: the first extension of the table that matches
guess_language_from_path(path) ==
  LET hits == SelectSeq(LANGUAGE_EXTENSIONS, LAMBDA e : EndsWith(path, e.ext))
  IN IF Len(hits) = 0 THEN <<>> ELSE hits[1].lang

IsPrefix(d, p) == Len(d) <= Len(p) /\ SubSeq(p, 1, Len(d)) = d

\* what os.walk finds in directory d: the names of its subdirectories and files
SubDirs(tree, d) ==
  {p[Len(d) + 1] : p \in {q \in DOMAIN tree : IsPrefix(d, q) /\ Len(q) > Len(d) + 1}}
FilesIn(tree, d) ==
  {p[Len(d) + 1] : p \in {q \in DOMAIN tree : IsPrefix(d, q) /\ Len(q) = Len(d) + 1}}

\* the lists that hold the elements of set S, each once: os.scandir yields
\* the entries of a directory in an order of its own
Orderings(S) ==
  {q \in [1..Cardinality(S) -> S] : \A i, j \in 1..Cardinality(S) : i # j => q[i] # q[j]}

\* the mutant of PruneDirs: the tool's own directory is walked
PruneDirs_KeepAppDir(dirs) == SelectSeq(dirs, LAMBDA d : d \notin IGNORED_DIRS)

\* dirs[:] = [d for d in dirs if d not in IGNORED_DIRS and d != APP_DIR_NAME]
PruneDirs(dirs) ==
  SelectSeq(dirs, LAMBDA d : d \notin IGNORED_DIRS /\ d # APP_DIR_NAME)

\* sorted(files)
SortedNames(files) ==
  StableSort(files, [i \in 1..Len(files) |-> [flag |-> FALSE, s |-> files[i]]])

\* the calls read_text_file(full_path) of one directory, in the order of the loop
ReadsOf(tree, d, files) ==
  [i \in 1..Len(files) |->
     LET p == Append(d, files[i])
     IN [path |-> JoinSep(p), fail |-> tree[p].fail,
         res |-> read_text_file(tree[p].data, tree[p].fail)]]

\* the entry appended for a file whose text is not None
EntryOf(r) ==
  [path |-> r.path, content |-> RStrip(r.res.text),
   language |-> guess_language_from_path(r.path)]

\* the entries one directory adds; the loop stops at a call that raises
RECURSIVE EntriesOf(_)
EntriesOf(reads) ==
  IF Len(reads) = 0 THEN <<>>
  ELSE IF reads[1].res.exc # "" THEN <<>>
  ELSE IF reads[1].res.none THEN EntriesOf(Tail(reads))
  ELSE <<EntryOf(reads[1])>> \o EntriesOf(Tail(reads))

\* the mutant of EntryKey: the paths are compared as they are
EntryKey_CaseSensitive(entry) == [flag |-> FALSE, s |-> entry.path]

\* the sort key of file_entries: entry["path"].lower()
EntryKey(entry) == [flag |-> FALSE, s |-> Lower(entry.path)]

\* file_entries.sort(key=...)
SortEntries(entries) ==
  StableSort(entries, [i \in 1..Len(entries) |-> EntryKey(entries[i])])

\* the fence of a code block: three backquotes, a character that the strings
\* of this module cannot hold
FENCE == Lit("'''")

\* the four lines of one entry, and the empty line after them
EntryLines(entry) ==
  << <<Lit("### FILE:"), SP(1), Str(entry.path)>>,
     <<FENCE>> \o (IF Len(entry.language) > 0 THEN <<Str(entry.language)>> ELSE <<>>),
     entry.content,
     <<FENCE>>,
     <<>> >>

RECURSIVE AllEntryLines(_)
AllEntryLines(entries) ==
  IF Len(entries) = 0 THEN <<>>
  ELSE EntryLines(entries[1]) \o AllEntryLines(Tail(entries))

\* lines, as collect_branch_markdown appends them
SnapshotLines(repo_name, branch_name, tree, entries) ==
  << <<Lit("# Project:"), SP(1), Str(repo_name), SP(1), Lit("(Branch:"), SP(1),
       Str(branch_name), Lit(")")>>,
     <<>>,
     <<Lit("## Project Structure")>>,
     <<FENCE>>,
     tree,
     <<FENCE>>,
     <<Lit("---")>>,
     <<Lit("## File Contents")>> >>
  \o AllEntryLines(entries)

\* the mutant of SnapshotText: the joined lines are not stripped
SnapshotText_NoStrip(lines) == Append(JoinLines(lines), NL)

\* "\n".join(lines).rstrip() + "\n"
SnapshotText(lines) == Append(RStrip(JoinLines(lines)), NL)

----------------------------------------------------------------------------
(* The working trees of collect_branch_markdown *)

DotGit == <<46, 103, 105, 116>>
NameD == <<68>>
NameLowerD == <<100>>
NameB == <<66>>
NameAPy == <<97, 46, 112, 121>>

\* a.py, B, D/a.py, D/B, d/a.py, and three files under ignored directories:
\* .git/a.py, D/.multi_codex/a.py, .git/D/a.py
WalkPaths ==
  { <<NameAPy>>, <<NameB>>, <<NameD, NameAPy>>, <<NameD, NameB>>, <<NameLowerD, NameAPy>>,
    <<DotGit, NameAPy>>, <<NameD, APP_DIR_NAME, NameAPy>>, <<DotGit, NameD, NameAPy>> }

Bytes(b, n) == [b |-> b, n |-> n]

\* "x\n"; two spaces; nothing; and files on which stat, the read of the
\* sample, the UTF-8 read or the Latin-1 read fails
FileKinds ==
  { [data |-> <<Bytes("0x78", 1), Bytes("0x0A", 1)>>, fail |-> "none"],
    [data |-> <<Bytes("0x20", 2)>>, fail |-> "none"],
    [data |-> <<>>, fail |-> "none"],
    [data |-> <<Bytes("0x78", 1)>>, fail |-> "stat"],
    [data |-> <<Bytes("0x78", 1)>>, fail |-> "read_sample"],
    [data |-> <<Bytes("0x78", 1)>>, fail |-> "read_utf8"],
    [data |-> <<Bytes("0xE9", 1)>>, fail |-> "read_latin1"] }

WorkingTrees ==
  UNION {[S -> FileKinds] : S \in {T \in SUBSET WalkPaths : Cardinality(T) <= MaxFiles}}

\* the start of the loop over os.walk(repo_path)
WalkStart ==
  /\ stack = <<<<>>>>
  /\ visited = {}
  /\ read_log = <<>>
  /\ file_entries = <<>>
  /\ doc_lines = <<>>
  /\ snapshot = <<>>

InitWalk ==
  /\ pc = "walk"
  /\ fs \in WorkingTrees
  /\ WalkStart
  /\ again = FALSE
  /\ prev_text = <<>>
  /\ TreeIdle
  /\ ReadIdle
  /\ AsmIdle
  /\ ShellIdle

\* one turn of `for root, dirs, files in os.walk(repo_path)`: the directory on
\* top of the stack is yielded, its subdirectories are pruned and its files read
WalkDir ==
  /\ pc = "walk"
  /\ Len(stack) > 0
  /\ LET root == Head(stack)
     IN \E dirs \in Orderings(SubDirs(fs, root)), files \in Orderings(FilesIn(fs, root)) :
          LET kept == PruneDirs(dirs)
              reads == ReadsOf(fs, root, SortedNames(files))
              raised == \E i \in 1..Len(reads) : reads[i].res.exc # ""
          IN /\ visited' = visited \cup {root}
             /\ read_log' = read_log \o reads
             /\ file_entries' = file_entries \o EntriesOf(reads)
             /\ stack' = [i \in 1..Len(kept) |-> Append(root, kept[i])] \o Tail(stack)
             /\ pc' = IF raised THEN "walk_raised" ELSE "walk"
  /\ UNCHANGED <<fs, doc_lines, snapshot, again, prev_text, treeVars, readVars, asmVars, shellVars>>

\* the argument branch_name of collect_branch_markdown
WalkedBranch == IF call.op = "none" THEN BranchName ELSE call.branch

\* after the loop: the entries are sorted, the tree is built, the lines are joined
Render ==
  /\ pc = "walk"
  /\ Len(stack) = 0
  /\ LET sorted == SortEntries(file_entries)
         tree_paths == [i \in 1..Len(sorted) |-> sorted[i].path]
         built == IF Len(tree_paths) > 0 THEN build_tree_from_paths(RepoName, tree_paths)
                  ELSE [raised |-> FALSE, lines |-> <<>>, str |-> <<Str(RepoName)>>]
         lines == SnapshotLines(RepoName, WalkedBranch, built.str, sorted)
     IN /\ file_entries' = sorted
        /\ paths' = tree_paths
        /\ tree_lines' = built.lines
        /\ tree_str' = built.str
        /\ doc_lines' = IF built.raised THEN <<>> ELSE lines
        /\ snapshot' = IF built.raised THEN <<>> ELSE SnapshotText(lines)
        /\ pc' = IF built.raised THEN "walk_raised" ELSE "walk_done"
  /\ UNCHANGED <<fs, stack, visited, read_log, again, prev_text, readVars, asmVars, shellVars>>

\* collect_branch_markdown is called once more on the same working tree
CallAgain ==
  /\ pc = "walk_done"
  /\ ~again
  /\ again' = TRUE
  /\ prev_text' = snapshot
  /\ pc' = "walk"
  /\ stack' = <<<<>>>>
  /\ visited' = {}
  /\ read_log' = <<>>
  /\ file_entries' = <<>>
  /\ doc_lines' = <<>>
  /\ snapshot' = <<>>
  /\ paths' = <<>> /\ tree_lines' = <<>> /\ tree_str' = <<>>
  /\ UNCHANGED <<fs, readVars, asmVars, shellVars>>

NextWalk == WalkDir \/ Render \/ CallAgain

SpecWalk == InitWalk /\ [][NextWalk]_vars

----------------------------------------------------------------------------
(* Properties of build_tree_from_paths *)

\* the lists that hold the elements of ps in another order
Reorderings(ps) ==
  {[i \in 1..Len(ps) |-> ps[f[i]]] : f \in Permutations(1..Len(ps))}

\* C1: build_tree_from_paths returns the same string for every order of the
\* same set of relative paths, sibling names that differ only by letter case
\* included.
C1_SameTreeForEveryOrder ==
  pc = "tree_done" =>
    \A q \in Reorderings(paths) : build_tree_from_paths(RepoName, q).str = tree_str

LineDepth(lines, i) == Len(lines[i].prefix)

\* the line of the directory that line i is listed under, 0 at the top level
ParentLine(lines, i) ==
  IF LineDepth(lines, i) = 0 THEN 0
  ELSE CHOOSE j \in 1..(i - 1) :
         /\ LineDepth(lines, j) = LineDepth(lines, i) - 1
         /\ \A k \in (j + 1)..(i - 1) : LineDepth(lines, k) >= LineDepth(lines, i)

\* a line is a directory when the next line is listed under it
IsDirLine(lines, i) ==
  i < Len(lines) /\ LineDepth(lines, i + 1) > LineDepth(lines, i)

Siblings(lines, i, j) ==
  /\ LineDepth(lines, i) = LineDepth(lines, j)
  /\ ParentLine(lines, i) = ParentLine(lines, j)

\* the connector written on a line
ConnectorOf(line) ==
  SelectSeq(TreeLineText(line), LAMBDA r : r.c \in {"L--", "+--"})[1].c

\* C2: at every level of the rendered tree the directories come before the
\* files, each group is in case-insensitive alphabetical order, the last
\* sibling carries the closing connector and every other sibling the
\* branching one, and the first line is the repository name.
C2_TreeLayout ==
  pc = "tree_done" =>
    /\ tree_str[1] = Str(RepoName)
    /\ Len(tree_lines) > 0 => tree_str[2] = NL
    /\ \A i, j \in 1..Len(tree_lines) :
         (i < j /\ Siblings(tree_lines, i, j)) =>
           /\ IsDirLine(tree_lines, j) => IsDirLine(tree_lines, i)
           /\ IsDirLine(tree_lines, i) = IsDirLine(tree_lines, j) =>
                StrLessEq(Lower(tree_lines[i].name), Lower(tree_lines[j].name))
    /\ \A i \in 1..Len(tree_lines) :
         ConnectorOf(tree_lines[i]) =
           IF \E j \in (i + 1)..Len(tree_lines) : Siblings(tree_lines, i, j)
           THEN "+--" ELSE "L--"

\* "B", "D/a" and "a" given in this order: a directory and two files whose
\* order by code point is not their case-insensitive order
C2_Witness ==
  /\ pc = "tree_done"
  /\ paths = <<<<66>>, <<68, 47, 97>>, <<97>>>>
  /\ Len(tree_lines) = 4
  /\ tree_lines[1].name = <<68>>
  /\ tree_lines[3].name = <<97>>

----------------------------------------------------------------------------
(* Properties of read_text_file *)

ReadEnded == pc \in {"read_done", "read_raised"}

\* the offset of the first NUL byte of the file, -1 when it has none
RECURSIVE FirstNulFrom(_, _)
FirstNulFrom(data, off) ==
  IF Len(data) = 0 THEN -1
  ELSE IF data[1].b = "0x00" THEN off
  ELSE FirstNulFrom(Tail(data), off + data[1].n)

NulInSample(data) == FirstNulFrom(data, 0) \in 0..(SAMPLE_BYTES - 1)

IsOpen(op) == op \in {"open_rb", "open_utf8", "open_latin1"}

\* C3: a text file (one that can be read and has no NUL byte in its sample)
\* of MAX_FILE_SIZE_BYTES bytes or less is included, a file of one byte more
\* or larger returns None, and the size is tested before the file is opened.
C3_SizeThreshold ==
  ReadEnded =>
    /\ (Size(file) <= MAX_FILE_SIZE_BYTES /\ io = "none" /\ ~NulInSample(file))
         => (rd.exc = "" /\ ~rd.none)
    /\ Size(file) >= MAX_FILE_SIZE_BYTES + 1 =>
         /\ rd.exc = "" /\ rd.none
         /\ \A i \in 1..Len(rd.ops) : ~IsOpen(rd.ops[i])
    /\ \A i \in 1..Len(rd.ops) : IsOpen(rd.ops[i]) => (i > 1 /\ rd.ops[1] = "stat")

\* a readable text file of exactly the threshold size was included
C3_Witness ==
  /\ pc = "read_done"
  /\ Size(file) = MAX_FILE_SIZE_BYTES
  /\ io = "none"
  /\ ~rd.none
  /\ rd.ops[1] = "stat"

\* C4: a file with a NUL byte in its first 4096 bytes returns None whatever
\* follows; a NUL byte only after the first 4096 bytes does not exclude a
\* readable file within the size limit.
C4_NulInSample ==
  ReadEnded =>
    /\ NulInSample(file) => (rd.exc = "" /\ rd.none)
    /\ (FirstNulFrom(file, 0) >= SAMPLE_BYTES /\ Size(file) <= MAX_FILE_SIZE_BYTES
          /\ io = "none")
         => (rd.exc = "" /\ ~rd.none)

\* a NUL as the last byte of the sample, more bytes after it: excluded
C4_Witness ==
  /\ pc = "read_done"
  /\ FirstNulFrom(file, 0) = SAMPLE_BYTES - 1
  /\ Size(file) = MAX_FILE_SIZE_BYTES
  /\ io = "none"
  /\ rd.none

\* the call reached the UTF-8 read and the bytes are not UTF-8
Utf8DecodeFailed ==
  /\ ReadEnded
  /\ Size(file) <= MAX_FILE_SIZE_BYTES
  /\ ~NulInSample(file)
  /\ io \notin {"stat", "open_rb", "read_sample", "open_utf8", "read_utf8"}
  /\ ~Utf8Decode(file).ok

Latin1Opens == Len(SelectSeq(rd.ops, LAMBDA op : op = "open_latin1"))

\* C5 as stated: whenever the UTF-8 decode fails the call retries once with
\* Latin-1 and returns the Latin-1 content.
C5_Latin1AlwaysIncluded ==
  Utf8DecodeFailed =>
    /\ Latin1Opens = 1
    /\ rd.exc = "" /\ ~rd.none
    /\ rd.text = Latin1Decode(file)

\* C5 as amended: whenever the UTF-8 decode fails the call retries exactly
\* once with Latin-1; it returns the Latin-1 content unless opening or
\* reading the file fails during that retry, and None if it does.
C5_Latin1Fallback ==
  Utf8DecodeFailed =>
    /\ Latin1Opens = 1
    /\ rd.exc = ""
    /\ IF io \in {"open_latin1", "read_latin1"}
       THEN rd.none
       ELSE ~rd.none /\ rd.text = Latin1Decode(file)

\* a file that holds a lone 0xE9 was returned with U+00E9 in its text
C5_Witness ==
  /\ Utf8DecodeFailed
  /\ io = "none"
  /\ ~rd.none
  /\ \E i \in 1..Len(rd.text) : rd.text[i].c = "U+00E9"
  /\ \E i \in 1..Len(file) : file[i].b = "0xE9"

----------------------------------------------------------------------------
(* Properties of collect_branch_markdown *)

\* the lines of a text: str.split("\n")
RECURSIVE TextLinesFrom(_, _)
TextLinesFrom(t, cur) ==
  IF Len(t) = 0 THEN <<cur>>
  ELSE IF t[1].c = "U+000A"
  THEN <<cur>> \o TextLinesFrom(IF t[1].n > 1 THEN <<Chr("U+000A", t[1].n - 1)>> \o Tail(t)
                                ELSE Tail(t), <<>>)
  ELSE TextLinesFrom(Tail(t), Append(cur, t[1]))

\* the paths of the "### FILE:" subheadings of the snapshot, in order
HeadingPaths ==
  LET hs == SelectSeq(TextLinesFrom(snapshot, <<>>),
                      LAMBDA l : Len(l) = 3 /\ l[1] = Lit("### FILE:"))
  IN [i \in 1..Len(hs) |-> hs[i][3].p]

HeadingSet == {HeadingPaths[i] : i \in 1..Len(HeadingPaths)}

\* the names of the line and of the directories above it
RECURSIVE LinePath(_, _)
LinePath(lines, i) ==
  IF ParentLine(lines, i) = 0 THEN <<lines[i].name>>
  ELSE Append(LinePath(lines, ParentLine(lines, i)), lines[i].name)

\* the paths of the files the rendered tree shows
TreeLeafPaths(lines) ==
  {JoinSep(LinePath(lines, i)) : i \in {k \in 1..Len(lines) : ~IsDirLine(lines, k)}}

IsIgnoredName(name) == name \in IGNORED_DIRS \/ name = APP_DIR_NAME

\* the directory d is, or lies under, an ignored directory
InIgnored(d) == \E i \in 1..Len(d) : IsIgnoredName(d[i])

\* the file with segments p lies under an ignored directory
UnderIgnored(p) == InIgnored(SubSeq(p, 1, Len(p) - 1))

ReadPaths == {read_log[i].path : i \in 1..Len(read_log)}

\* the files of the working tree outside every ignored directory
WalkedFiles == {JoinSep(p) : p \in {q \in DOMAIN fs : ~UnderIgnored(q)}}

\* C6: read_text_file never raises, an I/O failure on size, sample or content
\* (the Latin-1 retry included) gives None, and collect_branch_markdown skips
\* that file and goes on with the remaining files.
C6_ReadFailuresSkipped ==
  /\ pc # "walk_raised"
  /\ \A i \in 1..Len(read_log) :
       /\ read_log[i].res.exc = ""
       /\ (\E k \in 1..Len(read_log[i].res.ops) : read_log[i].res.ops[k] = read_log[i].fail)
            => read_log[i].res.none
  /\ pc = "walk_done" =>
       /\ ReadPaths = WalkedFiles
       /\ HeadingSet = {read_log[i].path : i \in {k \in 1..Len(read_log) : ~read_log[k].res.none}}

\* a file that could not be read was skipped, and a file read after it is in
\* the snapshot
C6_Witness ==
  /\ pc = "walk_done"
  /\ \E i, j \in 1..Len(read_log) :
       /\ i < j
       /\ read_log[i].fail # "none" /\ read_log[i].res.none
       /\ ~read_log[j].res.none
       /\ read_log[j].path \in HeadingSet
       /\ read_log[i].path \notin HeadingSet

\* C7: no directory named in IGNORED_DIRS or named .multi_codex is descended
\* into, at any depth, and no file under one is read or shown in the snapshot.
C7_IgnoredNeverVisited ==
  /\ \A d \in visited : ~InIgnored(d)
  /\ \A i \in 1..Len(stack) : ~InIgnored(stack[i])
  /\ \A q \in ReadPaths : ~UnderIgnored(Split(q))
  /\ pc = "walk_done" =>
       /\ \A q \in HeadingSet : ~UnderIgnored(Split(q))
       /\ \A q \in TreeLeafPaths(tree_lines) : ~UnderIgnored(Split(q))

\* D/.multi_codex/a.py is a readable text file, D was walked and D/B is in
\* the snapshot
C7_Witness ==
  /\ pc = "walk_done"
  /\ <<NameD, APP_DIR_NAME, NameAPy>> \in DOMAIN fs
  /\ fs[<<NameD, APP_DIR_NAME, NameAPy>>].fail = "none"
  /\ <<NameD>> \in visited
  /\ HeadingPaths = <<JoinSep(<<NameD, NameB>>)>>

\* the files read_text_file returns a text for
IncludedFiles ==
  {JoinSep(p) : p \in {q \in DOMAIN fs :
                         ~UnderIgnored(q) /\ ~read_text_file(fs[q].data, fs[q].fail).none}}

\* C8: the "### FILE:" subheadings are in non-decreasing order of the
\* lower-cased relative path, each included file has exactly one, and the
\* tree of the Project Structure section shows the same set of paths.
C8_SnapshotOrder ==
  pc = "walk_done" =>
    /\ \A i, j \in 1..Len(HeadingPaths) :
         i < j => /\ StrLessEq(Lower(HeadingPaths[i]), Lower(HeadingPaths[j]))
                  /\ HeadingPaths[i] # HeadingPaths[j]
    /\ HeadingSet = IncludedFiles
    /\ TreeLeafPaths(tree_lines) = HeadingSet
    /\ doc_lines[5] = tree_str

\* B was read before a.py and is listed after it
C8_Witness ==
  /\ pc = "walk_done"
  /\ Len(read_log) = 2
  /\ read_log[1].path = NameB
  /\ HeadingPaths = <<NameAPy, NameB>>
  /\ Len(tree_lines) = 2

\* C9: for the same working tree collect_branch_markdown returns the same
\* text whatever the order of the walk, two paths that differ only by letter
\* case included.
C9_SameSnapshotForEveryWalk ==
  (pc = "walk_done" /\ again) => snapshot = prev_text

\* the last character of the text is white space
LastIsSpace(t) ==
  /\ Len(t) > 0
  /\ IF t[Len(t)].c = "str"
     THEN Len(t[Len(t)].p) = 0 \/ t[Len(t)].p[Len(t[Len(t)].p)] \in WhitespaceCodes
     ELSE t[Len(t)].c \in WHITESPACE

\* C10: the snapshot ends with exactly one newline and no other white space
\* before it, with no file, and with files of empty or blank content.
C10_OneTrailingNewline ==
  pc = "walk_done" =>
    /\ Len(snapshot) > 1
    /\ snapshot[Len(snapshot)] = NL
    /\ ~LastIsSpace(SubSeq(snapshot, 1, Len(snapshot) - 1))

\* the last file of the snapshot has blank content
C10_Witness ==
  /\ pc = "walk_done"
  /\ Len(file_entries) > 0
  /\ file_entries[Len(file_entries)].content = <<>>
  /\ \E p \in DOMAIN fs : fs[p].data = <<Bytes("0x20", 2)>> /\ ~UnderIgnored(p)

----------------------------------------------------------------------------
(* Git commands *)

\* str.lstrip() on a string of code points
RECURSIVE LStripCodes(_)
LStripCodes(s) ==
  IF Len(s) = 0 THEN s
  ELSE IF s[1] \in WhitespaceCodes THEN LStripCodes(Tail(s))
  ELSE s

\* str.lstrip() on a text
RECURSIVE LStrip(_)
LStrip(t) ==
  IF Len(t) = 0 THEN t
  ELSE IF t[1].c = "str"
  THEN (IF Len(LStripCodes(t[1].p)) = 0 THEN LStrip(Tail(t))
        ELSE <<Str(LStripCodes(t[1].p))>> \o Tail(t))
  ELSE IF t[1].c \in WHITESPACE THEN LStrip(Tail(t))
  ELSE t

\* str.strip() on a text
Strip(t) == LStrip(RStrip(t))

\* sep.join(items), each item a text
RECURSIVE JoinWith(_, _)
JoinWith(sep, items) ==
  IF Len(items) = 0 THEN <<>>
  ELSE IF Len(items) = 1 THEN items[1]
  ELSE items[1] \o sep \o JoinWith(sep, Tail(items))

\* the commands that go through run_git
ViaRunGit(cmd) == cmd \in {"fetch", "checkout", "diff"}

\* how many calls of run_git the log holds
RunGitCalls(log) == Len(SelectSeq(log, ViaRunGit))

\* str(GitError(cmd, stderr)): "Git command failed: " + " ".join(command); the
\* stderr of the command, stripped, follows on a second line when it is not empty
GitErrorText(cmd) == <<Lit("Git command failed: git -C"), SP(1), Lit(cmd)>>

\* run_git(repo_path, args): the command is run; a non-zero exit status or a
\* missing git executable raises GitError, otherwise the stripped stdout is returned
run_git(g, log, cmd, stdout) ==
  IF g.fail = RunGitCalls(log) + 1
  THEN [exc |-> "GitError", msg |-> GitErrorText(cmd), log |-> Append(log, cmd), stdout |-> <<>>]
  ELSE [exc |-> "", msg |-> <<>>, log |-> Append(log, cmd), stdout |-> Strip(stdout)]

\* the mutant of sync_remote_branch: a failed fetch is ignored
sync_remote_branch_IgnoreFetch(g, log) ==
  run_git(g, run_git(g, log, "fetch", <<>>).log, "checkout", <<>>)

\* sync_remote_branch: fetch, then checkout -B <branch> origin/<branch>
sync_remote_branch(g, log) ==
  LET fetched == run_git(g, log, "fetch", <<>>)
  IN IF fetched.exc # "" THEN fetched
     ELSE run_git(g, fetched.log, "checkout", <<>>)

\* DiffResult(ok, has_changes, message, diff_text); diff_text is None or a text
DiffResult(ok, has_changes, message, is_none, diff_text) ==
  [none |-> FALSE, ok |-> ok, has_changes |-> has_changes, message |-> message,
   diff_none |-> is_none, diff_text |-> diff_text]

\* f"origin/{name}"
RefText(name) == <<Lit("origin/"), Str(name)>>

\* ref_exists(ref): git show-ref --verify --quiet refs/remotes/<ref>
ref_exists(g, which) == IF which = "base" THEN g.base ELSE g.branch

\* the mutant of missing_refs: the search stops at the first missing reference
missing_refs_FirstOnly(g, base_ref, branch_ref) ==
  IF ~ref_exists(g, "base") THEN <<base_ref>>
  ELSE IF ~ref_exists(g, "branch") THEN <<branch_ref>>
  ELSE <<>>

\* missing_refs = [ref for ref in (base_ref, branch_ref) if not ref_exists(ref)]
missing_refs(g, base_ref, branch_ref) ==
  (IF ~ref_exists(g, "base") THEN <<base_ref>> ELSE <<>>)
    \o (IF ~ref_exists(g, "branch") THEN <<branch_ref>> ELSE <<>>)

\* a mutant of DiffOutcome: an empty diff body is not told apart
DiffOutcome_NoEmptyTest(diff_output, branch_ref, base_ref) ==
  DiffResult(TRUE, TRUE, <<>>, FALSE, Strip(diff_output))

\* a mutant of DiffOutcome: the result for an empty diff body has no message
DiffOutcome_NoMessage(diff_output, branch_ref, base_ref) ==
  IF Len(Strip(diff_output)) = 0 THEN DiffResult(TRUE, FALSE, <<>>, FALSE, <<>>)
  ELSE DiffResult(TRUE, TRUE, <<>>, FALSE, Strip(diff_output))

\* the end of compute_branch_diff: the diff command has succeeded
DiffOutcome(diff_output, branch_ref, base_ref) ==
  IF Len(Strip(diff_output)) = 0
  THEN DiffResult(TRUE, FALSE,
                  <<Lit("No differences between"), SP(1)>> \o branch_ref \o <<SP(1), Lit("and"), SP(1)>>
                    \o base_ref \o <<Lit(".")>>, FALSE, <<>>)
  ELSE DiffResult(TRUE, TRUE, <<>>, FALSE, Strip(diff_output))

\* the mutant of DiffFailure: the GitError of the diff command is not caught
DiffFailure_Uncaught(ran, branch_ref, base_ref) ==
  [exc |-> "GitError", log |-> ran.log, dr |-> [none |-> TRUE]]

\* `except GitError` around the diff command
DiffFailure(ran, branch_ref, base_ref) ==
  [exc |-> "", log |-> ran.log,
   dr |-> DiffResult(FALSE, FALSE,
                     <<Lit("Failed to compute diff between"), SP(1)>> \o branch_ref
                       \o <<SP(1), Lit("and"), SP(1)>> \o base_ref \o <<Lit(":"), SP(1)>> \o ran.msg,
                     TRUE, <<>>)]

\* compute_branch_diff(repo_path, branch_name, base_branch)
compute_branch_diff(g, log, branch_name, base_branch) ==
  LET fetched == run_git(g, log, "fetch", <<>>)
      branch_ref == RefText(branch_name)
      base_ref == RefText(base_branch)
      shown == fetched.log \o <<"show-ref base", "show-ref branch">>
      missing == missing_refs(g, base_ref, branch_ref)
      ran == run_git(g, shown, "diff", g.diff)
  IN IF fetched.exc = "GitError"
     THEN [exc |-> "", log |-> fetched.log,
           dr |-> DiffResult(FALSE, FALSE,
                             <<Lit("Failed to fetch from origin:"), SP(1)>> \o fetched.msg, TRUE, <<>>)]
     ELSE IF Len(missing) > 0
     THEN [exc |-> "", log |-> shown,
           dr |-> DiffResult(FALSE, FALSE,
                    <<Lit("Unable to compute diff because the following references were not found on origin:"), SP(1)>>
                      \o JoinWith(<<Lit(","), SP(1)>>, missing)
                      \o <<Lit(". Please ensure the branch names are correct and fetched.")>>,
                    TRUE, <<>>)]
     ELSE IF ran.exc = "GitError" THEN DiffFailure(ran, branch_ref, base_ref)
     ELSE [exc |-> "", log |-> ran.log, dr |-> DiffOutcome(ran.stdout, branch_ref, base_ref)]

----------------------------------------------------------------------------
(* Prompt templates and prompt builders *)

\* _PROMPT_FILES: logical name -> resource file
PROMPT_FILES ==
  [name \in {"branch_comparison", "arch_deep_dive", "feature_security_analysis",
             "pr_long_context"} |->
     CASE name = "branch_comparison" -> "branch_comparison.md"
       [] name = "arch_deep_dive" -> "arch_deep_dive.md"
       [] name = "feature_security_analysis" -> "feature_security_analysis.md"
       [] name = "pr_long_context" -> "pr_long_context.md"]

\* the content of a bundled resource file: a static instructional text (one
\* chunk stands for it) that ends with a newline
PromptText(filename) == <<Lit(filename), NL>>

\* the mutant of load_prompt: the file is opened before the name is looked up
load_prompt_OpenFirst(name, files) ==
  IF name \notin DOMAIN PROMPT_FILES
  THEN [exc |-> "KeyError", opened |-> Append(files, name), text |-> <<>>]
  ELSE [exc |-> "", opened |-> Append(files, PROMPT_FILES[name]),
        text |-> PromptText(PROMPT_FILES[name])]

\* load_prompt(name); files are the resource files opened before the call
load_prompt(name, files) ==
  IF name \notin DOMAIN PROMPT_FILES
  THEN [exc |-> "KeyError", opened |-> files, text |-> <<>>]
  ELSE [exc |-> "", opened |-> Append(files, PROMPT_FILES[name]),
        text |-> PromptText(PROMPT_FILES[name])]

BEGIN_DOCUMENT == Lit("---------------- BEGIN DOCUMENT ----------------")
END_DOCUMENT == Lit("---------------- END DOCUMENT ----------------")

\* build_single_branch_prompt(prompt_name, branch_markdown)
build_single_branch_prompt(prompt_name, branch_markdown, files) ==
  LET loaded == load_prompt(prompt_name, files)
  IN IF loaded.exc # "" THEN loaded
     ELSE [loaded EXCEPT !.text =
             JoinLines(<< Strip(loaded.text), <<>>, <<BEGIN_DOCUMENT>>,
                          RStrip(branch_markdown), <<END_DOCUMENT>> >>)]

\* "_No specification was provided for this project._"
NO_SPEC_LINE == <<95, 78, 111, 32, 115, 112, 101, 99, 105, 102, 105, 99, 97, 116, 105, 111, 110, 32, 119, 97, 115, 32, 112, 114, 111, 118, 105, 100, 101, 100, 32, 102, 111, 114, 32, 116, 104, 105, 115, 32, 112, 114, 111, 106, 101, 99, 116, 46, 95>>

\* f"_Source: ({spec_path})_"; the source quotes the path with U+0060, which a
\* TLA+ string cannot hold: the model writes an apostrophe for it
SourceLine(spec_path) == <<Lit("_Source: '"), Str(spec_path), Lit("'_")>>

\* f"# {branch_name} branch content"
BranchHeading(branch_name) == <<Lit("#"), SP(1), Str(branch_name), SP(1), Lit("branch content")>>

\* the parts of build_document_body for the items of branch_markdown
RECURSIVE BranchParts(_)
BranchParts(items) ==
  IF Len(items) = 0 THEN <<>>
  ELSE << BranchHeading(items[1].name), <<>>, RStrip(items[1].md), <<>> >>
         \o BranchParts(Tail(items))

\* the mutant of SpecParts: the source path is cited whenever it is given
SpecParts_AlwaysSource(spec_path, spec_content) ==
  (IF Len(spec_path) > 0 THEN <<SourceLine(spec_path)>> ELSE <<>>)
    \o (IF Len(Strip(spec_content)) > 0 THEN << <<>>, RStrip(spec_content), <<>> >>
        ELSE << <<Str(NO_SPEC_LINE), NL>> >>)

\* the specification section of build_document_body; spec_path None is <<>>
SpecParts(spec_path, spec_content) ==
  IF Len(Strip(spec_content)) > 0
  THEN (IF Len(spec_path) > 0 THEN <<SourceLine(spec_path)>> ELSE <<>>)
         \o << <<>>, RStrip(spec_content), <<>> >>
  ELSE << <<Str(NO_SPEC_LINE), NL>> >>

\* build_document_body(spec_path, spec_content, branch_markdown); the dict is
\* the sequence of its items [name, md] in insertion order
build_document_body(spec_path, spec_content, branch_markdown) ==
  JoinLines(<< <<Lit("# Specifications and design docs and prompts")>>, <<>> >>
              \o SpecParts(spec_path, spec_content)
              \o BranchParts(branch_markdown))

\* ", ".join(name in U+0060 quotes for name in branch_names) or "None"
BranchesDisplay(branch_names) ==
  IF Len(branch_names) = 0 THEN <<Lit("None")>>
  ELSE JoinWith(<<Lit(","), SP(1)>>,
                [i \in 1..Len(branch_names) |-> <<Lit("'"), Str(branch_names[i]), Lit("'")>>])

\* build_final_prompt(document_body, branch_names)
build_final_prompt(document_body, branch_names, files) ==
  LET loaded == load_prompt("branch_comparison", files)
  IN IF loaded.exc # "" THEN loaded
     ELSE [loaded EXCEPT !.text =
             JoinLines(<< Strip(loaded.text), <<>>,
                          <<Lit("Here is the combined specification and branch content markdown.")>>,
                          <<Lit("The branches to compare are:"), SP(1)>>
                            \o BranchesDisplay(branch_names) \o <<Lit(".")>>,
                          <<>>, <<BEGIN_DOCUMENT>>, RStrip(document_body), <<END_DOCUMENT>> >>)]

\* the names the module multi_codex.core defines (its functions and classes)
CORE_NAMES ==
  { "GitError", "DiffResult", "BranchSpec", "run_git", "ensure_local_clone",
    "get_remote_branch_names", "slugify_repo_url", "ensure_app_dirs", "is_binary_content",
    "read_text_file", "guess_language_from_path", "build_tree_from_paths",
    "slugify_branch_name", "sync_remote_branch", "collect_branch_markdown",
    "build_single_branch_prompt", "build_document_body", "build_final_prompt",
    "compute_branch_diff", "build_pr_mega_prompt", "build_architecture_report",
    "build_feature_security_analysis" }

\* core.<name>: the attribute lookup on the module
CoreAttribute(name) == IF name \in CORE_NAMES THEN "" ELSE "AttributeError"

\* the mutant of diff_block: the diff is shown whenever the DiffResult is ok
diff_block_WheneverOk(d) ==
  IF d.ok
  THEN << <<FENCE, Lit("diff")>>, Strip(d.diff_text), <<FENCE>> >>
  ELSE << <<FENCE, Lit("text")>>,
          <<Lit("Diff computation error"), Lit(":"), SP(1)>>
            \o (IF Len(d.message) > 0 THEN d.message ELSE <<Lit("No differences were detected.")>>),
          <<FENCE>> >>

\* diff_block of build_pr_mega_prompt
diff_block(d) ==
  IF d.ok /\ d.has_changes /\ ~d.diff_none /\ Len(d.diff_text) > 0
  THEN << <<FENCE, Lit("diff")>>, Strip(d.diff_text), <<FENCE>> >>
  ELSE << <<FENCE, Lit("text")>>,
          <<(IF ~d.ok THEN Lit("Diff computation error") ELSE Lit("No diff to show")),
            Lit(":"), SP(1)>>
            \o (IF Len(d.message) > 0 THEN d.message ELSE <<Lit("No differences were detected.")>>),
          <<FENCE>> >>

\* parts of build_pr_mega_prompt, joined
PrPromptText(system_prompt, branch_name, base_branch, branch_markdown, d) ==
  JoinLines(<< Strip(system_prompt), <<>>, <<BEGIN_DOCUMENT>>,
               <<Lit("## PR Branch Long Context ("), Str(branch_name), Lit(")")>>,
               RStrip(branch_markdown), <<>>,
               <<Lit("## Diff:"), SP(1), Str(branch_name), SP(1), Lit("vs"), SP(1), Str(base_branch)>> >>
              \o diff_block(d) \o << <<END_DOCUMENT>> >>)

----------------------------------------------------------------------------
(* The prompt builders and compute_branch_diff as operations *)

\* the most items of a branch_markdown mapping
MaxBranches == 2

\* the calls of run_git build_pr_mega_prompt makes: fetch, checkout, fetch, diff
MaxGitCalls == 4

\* "dev"
BaseName == <<100, 101, 118>>
\* "spec.md"
SpecPath == <<115, 112, 101, 99, 46, 109, 100>>

\* the repositories: the call of run_git that fails (0: none), the refs that
\* exist on origin when compute_branch_diff looks, the stdout of git diff
DiffOutputs ==
  { <<>>, <<SP(1), NL>>, <<Lit("DIFF")>>, <<NL, Lit("DIFF"), NL, Lit("MORE"), NL>> }
Repos ==
  [fail : 0..MaxGitCalls, base : BOOLEAN, branch : BOOLEAN, diff : DiffOutputs]

\* the working trees of the calls that take a snapshot
AsmTrees ==
  {t \in WorkingTrees :
     /\ DOMAIN t \subseteq {<<NameAPy>>}
     /\ \A p \in DOMAIN t : t[p].fail \in {"none", "stat"}}

\* the texts given as branch_markdown: snapshots, which end with one newline;
\* the content of a file may hold any line, a line of dashes and words included
SnapshotTexts ==
  { <<Lit("CONTENT"), NL>>, <<Lit("CONTENT"), NL, NL, Lit("MORE"), NL>>,
    <<Lit("CONTENT"), NL, BEGIN_DOCUMENT, NL>>, <<END_DOCUMENT, NL, Lit("CONTENT"), NL>> }

\* the template names given to build_single_branch_prompt
TemplateNames == DOMAIN PROMPT_FILES \cup {"architecture_report", ""}

\* the names given to load_prompt
LoadNames == TemplateNames \cup {"feature_security_modernization"}

BranchNames == {BranchName, BaseName}
NameLists ==
  {s \in SeqsUpTo(BranchNames, MaxBranches) : \A i, j \in 1..Len(s) : i # j => s[i] # s[j]}
BranchMaps ==
  UNION {{[i \in 1..Len(s) |-> [name |-> s[i], md |-> mds[i]]] :
            mds \in [1..Len(s) -> {<<Lit("CONTENT"), NL>>, <<Lit("OTHER"), NL, Lit("MORE"), NL>>}]} :
         s \in NameLists}
SpecPaths == {<<>>, SpecPath}
SpecContents == {<<>>, <<SP(1), NL>>, <<Lit("Spec content"), NL>>}

GitOps ==
  {"collect_branch_markdown", "build_pr_mega_prompt", "build_architecture_report",
   "build_feature_security_analysis", "compute_branch_diff"}
WalkOps == GitOps \ {"compute_branch_diff"}

Calls ==
  {[op |-> o, branch |-> BranchName, base |-> BaseName] : o \in GitOps}
  \cup {[op |-> "build_single_branch_prompt", name |-> n, text |-> t] :
          n \in TemplateNames, t \in SnapshotTexts}
  \cup {[op |-> o, spec_path |-> sp, spec_content |-> sc, branch_markdown |-> bm] :
          o \in {"build_document_body", "build_branch_comparison_prompt"},
          sp \in SpecPaths, sc \in SpecContents, bm \in BranchMaps}
  \cup {[op |-> "build_final_prompt",
         document_body |-> build_document_body(sp, sc, bm), branch_names |-> ns] :
          sp \in SpecPaths, sc \in SpecContents, bm \in BranchMaps, ns \in NameLists}
  \cup {[op |-> "load_prompt", name |-> n] : n \in LoadNames}
  \cup {[op |-> "build_feature_security_report", branch |-> BranchName, base |-> BaseName]}

NoResult == [exc |-> "", returned |-> FALSE, text |-> <<>>]
RaisedOut(exc) == [exc |-> exc, returned |-> FALSE, text |-> <<>>]
ReturnedOut(text) == [exc |-> "", returned |-> TRUE, text |-> text]

InitAsm ==
  /\ call \in Calls
  /\ git \in (IF call.op \in GitOps THEN Repos ELSE {[fail |-> 0]})
  /\ fs \in (IF call.op \in WalkOps THEN AsmTrees ELSE {<<>>})
  /\ pc = (IF call.op \in WalkOps \ {"build_pr_mega_prompt"} THEN "sync" ELSE "call")
  /\ git_log = <<>> /\ opened = <<>> /\ dr = [none |-> TRUE] /\ out = NoResult
  /\ asked = <<>>
  /\ ShellIdle
  /\ stack = (IF call.op \in WalkOps THEN <<<<>>>> ELSE <<>>)
  /\ visited = {} /\ read_log = <<>> /\ file_entries = <<>> /\ doc_lines = <<>>
  /\ snapshot = <<>> /\ again = FALSE /\ prev_text = <<>>
  /\ TreeIdle
  /\ ReadIdle

walkState == <<fs, stack, visited, read_log, file_entries, doc_lines, snapshot, again, prev_text>>

\* build_pr_mega_prompt, its first statement: the template is loaded
LoadPrPrompt ==
  /\ pc = "call"
  /\ call.op = "build_pr_mega_prompt"
  /\ LET loaded == load_prompt("pr_long_context", opened)
     IN /\ opened' = loaded.opened
        /\ pc' = IF loaded.exc # "" THEN "asm_raised" ELSE "sync"
        /\ out' = IF loaded.exc # "" THEN RaisedOut(loaded.exc) ELSE out
  /\ asked' = Append(asked, "pr_long_context")
  /\ UNCHANGED <<call, git, git_log, dr, walkState, treeVars, readVars, shellVars>>

\* collect_branch_markdown, its first statement: sync_remote_branch
Sync ==
  /\ pc = "sync"
  /\ LET synced == sync_remote_branch(git, git_log)
     IN /\ git_log' = synced.log
        /\ pc' = IF synced.exc # "" THEN "asm_raised" ELSE "walk"
        /\ out' = IF synced.exc # "" THEN RaisedOut(synced.exc) ELSE out
  /\ UNCHANGED <<call, git, opened, dr, walkState, treeVars, readVars, asked, shellVars>>

\* collect_branch_markdown returns to its caller
ReturnSnapshot ==
  /\ pc = "walk_done"
  /\ call.op = "collect_branch_markdown"
  /\ out' = ReturnedOut(snapshot)
  /\ pc' = "asm_done"
  /\ UNCHANGED <<call, git, git_log, opened, dr, walkState, treeVars, readVars, asked, shellVars>>

\* build_architecture_report and build_feature_security_analysis after the snapshot
FinishReport ==
  /\ pc = "walk_done"
  /\ call.op \in {"build_architecture_report", "build_feature_security_analysis"}
  /\ LET built == build_single_branch_prompt(
                    IF call.op = "build_architecture_report" THEN "arch_deep_dive"
                    ELSE "feature_security_analysis", snapshot, opened)
     IN /\ opened' = built.opened
        /\ out' = IF built.exc # "" THEN RaisedOut(built.exc) ELSE ReturnedOut(built.text)
        /\ pc' = IF built.exc # "" THEN "asm_raised" ELSE "asm_done"
  /\ asked' = Append(asked, IF call.op = "build_architecture_report" THEN "arch_deep_dive"
                              ELSE "feature_security_analysis")
  /\ UNCHANGED <<call, git, git_log, dr, walkState, treeVars, readVars, shellVars>>

\* build_pr_mega_prompt after the snapshot: the diff is computed, the parts joined
FinishPr ==
  /\ pc = "walk_done"
  /\ call.op = "build_pr_mega_prompt"
  /\ LET d == compute_branch_diff(git, git_log, call.branch, call.base)
     IN /\ git_log' = d.log
        /\ dr' = d.dr
        /\ out' = IF d.exc # "" THEN RaisedOut(d.exc)
                  ELSE ReturnedOut(PrPromptText(PromptText(PROMPT_FILES["pr_long_context"]),
                                                call.branch, call.base, snapshot, d.dr))
        /\ pc' = IF d.exc # "" THEN "asm_raised" ELSE "asm_done"
  /\ UNCHANGED <<call, git, opened, walkState, treeVars, readVars, asked, shellVars>>

\* compute_branch_diff called on its own
ComputeBranchDiff ==
  /\ pc = "call"
  /\ call.op = "compute_branch_diff"
  /\ LET d == compute_branch_diff(git, git_log, call.branch, call.base)
     IN /\ git_log' = d.log
        /\ dr' = d.dr
        /\ out' = IF d.exc # "" THEN RaisedOut(d.exc) ELSE ReturnedOut(<<>>)
        /\ pc' = IF d.exc # "" THEN "asm_raised" ELSE "asm_done"
  /\ UNCHANGED <<call, git, opened, walkState, treeVars, readVars, asked, shellVars>>

\* build_single_branch_prompt called on its own
BuildSingleBranchPrompt ==
  /\ pc = "call"
  /\ call.op = "build_single_branch_prompt"
  /\ LET built == build_single_branch_prompt(call.name, call.text, opened)
     IN /\ opened' = built.opened
        /\ out' = IF built.exc # "" THEN RaisedOut(built.exc) ELSE ReturnedOut(built.text)
        /\ pc' = IF built.exc # "" THEN "asm_raised" ELSE "asm_done"
  /\ asked' = Append(asked, call.name)
  /\ UNCHANGED <<call, git, git_log, dr, walkState, treeVars, readVars, shellVars>>

BuildDocumentBody ==
  /\ pc = "call"
  /\ call.op = "build_document_body"
  /\ out' = ReturnedOut(build_document_body(call.spec_path, call.spec_content,
                                            call.branch_markdown))
  /\ pc' = "asm_done"
  /\ UNCHANGED <<call, git, git_log, opened, dr, walkState, treeVars, readVars, asked, shellVars>>

BuildFinalPrompt ==
  /\ pc = "call"
  /\ call.op = "build_final_prompt"
  /\ LET built == build_final_prompt(call.document_body, call.branch_names, opened)
     IN /\ opened' = built.opened
        /\ out' = IF built.exc # "" THEN RaisedOut(built.exc) ELSE ReturnedOut(built.text)
        /\ pc' = IF built.exc # "" THEN "asm_raised" ELSE "asm_done"
  /\ asked' = Append(asked, "branch_comparison")
  /\ UNCHANGED <<call, git, git_log, dr, walkState, treeVars, readVars, shellVars>>

\* core.build_branch_comparison_prompt(spec_path, spec_content, branch_markdown),
\* as run_compare and the test call it: the name is looked up in the module
BuildBranchComparisonPrompt ==
  /\ pc = "call"
  /\ call.op = "build_branch_comparison_prompt"
  /\ out' = RaisedOut(CoreAttribute("build_branch_comparison_prompt"))
  /\ pc' = IF CoreAttribute("build_branch_comparison_prompt") # "" THEN "asm_raised"
           ELSE "asm_done"
  /\ UNCHANGED <<call, git, git_log, opened, dr, walkState, treeVars, readVars, asked, shellVars>>

\* load_prompt called on its own
LoadPrompt ==
  /\ pc = "call"
  /\ call.op = "load_prompt"
  /\ LET loaded == load_prompt(call.name, opened)
     IN /\ opened' = loaded.opened
        /\ out' = IF loaded.exc # "" THEN RaisedOut(loaded.exc) ELSE ReturnedOut(loaded.text)
        /\ pc' = IF loaded.exc # "" THEN "asm_raised" ELSE "asm_done"
  /\ asked' = Append(asked, call.name)
  /\ UNCHANGED <<call, git, git_log, dr, walkState, treeVars, readVars, shellVars>>

\* core.build_feature_security_report(repo_path, branch_name), as
\* run_feature_security and the test call it: the name is looked up in the module
BuildFeatureSecurityReport ==
  /\ pc = "call"
  /\ call.op = "build_feature_security_report"
  /\ out' = RaisedOut(CoreAttribute("build_feature_security_report"))
  /\ pc' = IF CoreAttribute("build_feature_security_report") # "" THEN "asm_raised"
           ELSE "asm_done"
  /\ UNCHANGED <<call, git, git_log, opened, dr, walkState, treeVars, readVars, asked, shellVars>>

NextAsm ==
  \/ LoadPrPrompt \/ Sync \/ WalkDir \/ Render
  \/ ReturnSnapshot \/ FinishReport \/ FinishPr
  \/ ComputeBranchDiff \/ BuildSingleBranchPrompt \/ BuildDocumentBody
  \/ BuildFinalPrompt \/ BuildBranchComparisonPrompt
  \/ LoadPrompt \/ BuildFeatureSecurityReport

SpecAsm == InitAsm /\ [][NextAsm]_vars

----------------------------------------------------------------------------
(* Properties of the repository operations *)

\* the text holds the text sub as a run of consecutive items
Contains(t, sub) ==
  \E i \in 1..(Len(t) + 1) :
    i + Len(sub) - 1 <= Len(t) /\ SubSeq(t, i, i + Len(sub) - 1) = sub

\* the calls of run_git made before compute_branch_diff is entered
CallsBeforeDiff == IF call.op = "build_pr_mega_prompt" THEN 2 ELSE 0

\* sync_remote_branch has run and its fetch or its checkout has failed
SyncFailed ==
  /\ call.op \in WalkOps
  /\ git.fail \in {1, 2}
  /\ RunGitCalls(git_log) >= git.fail

\* C11: when the fetch or the checkout of sync_remote_branch fails, the call
\* (collect_branch_markdown, build_pr_mega_prompt, build_architecture_report,
\* build_feature_security_analysis) raises GitError: no directory is walked,
\* no file read, no snapshot and no document is returned.
C11_SyncFailureAborts ==
  SyncFailed =>
    /\ pc = "asm_raised"
    /\ out = RaisedOut("GitError")
    /\ Len(git_log) = git.fail
    /\ visited = {} /\ read_log = <<>> /\ file_entries = <<>>
    /\ doc_lines = <<>> /\ snapshot = <<>>

\* the checkout has failed in build_architecture_report on a tree with a file
C11_Witness ==
  /\ SyncFailed
  /\ call.op = "build_architecture_report"
  /\ git_log = <<"fetch", "checkout">>
  /\ DOMAIN fs # {}
  /\ out.exc = "GitError"

\* compute_branch_diff has returned
DiffReturned == dr.none = FALSE

\* C12: every DiffResult of compute_branch_diff has has_changes only when ok,
\* and diff_text is a non-empty string exactly when has_changes.
C12_DiffResultInvariant ==
  DiffReturned =>
    /\ dr.has_changes => dr.ok
    /\ (~dr.diff_none /\ Len(dr.diff_text) > 0) <=> dr.has_changes

\* a result with changes, and the diff command printed white space around them
C12_Witness ==
  /\ DiffReturned
  /\ dr.has_changes
  /\ dr.diff_text # git.diff
  /\ call.op = "compute_branch_diff"

\* the existence of the two refs has been looked up
RefsLooked ==
  \E i \in 1..Len(git_log) : git_log[i] = "show-ref base"

\* C13: both refs are looked up before any diff command; when one or both are
\* missing the result is ok=false, has_changes=false, the message names every
\* missing ref, and the diff command is not run.
C13_MissingRefs ==
  DiffReturned =>
    /\ \A i \in 1..Len(git_log) :
         git_log[i] = "diff" =>
           /\ \E j \in 1..(i - 1) : git_log[j] = "show-ref base"
           /\ \E j \in 1..(i - 1) : git_log[j] = "show-ref branch"
    /\ (RefsLooked /\ (~git.base \/ ~git.branch)) =>
         /\ ~dr.ok /\ ~dr.has_changes
         /\ \A i \in 1..Len(git_log) : git_log[i] # "diff"
         /\ ~git.base => Contains(dr.message, RefText(call.base))
         /\ ~git.branch => Contains(dr.message, RefText(call.branch))
         /\ git.base => ~Contains(dr.message, RefText(call.base))
         /\ git.branch => ~Contains(dr.message, RefText(call.branch))

\* both refs are missing and the message names both
C13_Witness ==
  /\ DiffReturned
  /\ RefsLooked
  /\ ~git.base /\ ~git.branch
  /\ Contains(dr.message, RefText(call.base) \o <<Lit(","), SP(1)>> \o RefText(call.branch))

\* compute_branch_diff has run, and its fetch, or its diff command after both
\* refs were found, has failed
DiffCommandFailed ==
  /\ call.op \in {"compute_branch_diff", "build_pr_mega_prompt"}
  /\ RunGitCalls(git_log) > CallsBeforeDiff
  /\ RunGitCalls(git_log) >= git.fail
  /\ \/ git.fail = CallsBeforeDiff + 1
     \/ git.fail = CallsBeforeDiff + 2 /\ git.base /\ git.branch

\* C14: a failure of the fetch or of the diff command of compute_branch_diff
\* is returned as a DiffResult with ok=false, has_changes=false and a
\* non-empty message; build_pr_mega_prompt then still returns a document
\* with the snapshot.
C14_DiffFailureReturned ==
  DiffCommandFailed =>
    /\ pc = "asm_done"
    /\ out.exc = "" /\ out.returned
    /\ DiffReturned
    /\ ~dr.ok /\ ~dr.has_changes /\ Len(dr.message) > 0
    /\ call.op = "build_pr_mega_prompt" =>
         /\ Contains(out.text, RStrip(snapshot))
         /\ Contains(out.text, dr.message)

\* the diff command failed in build_pr_mega_prompt and the document is returned
C14_Witness ==
  /\ DiffCommandFailed
  /\ call.op = "build_pr_mega_prompt"
  /\ git.fail = 4
  /\ git_log[Len(git_log)] = "diff"
  /\ out.returned
  /\ Len(file_entries) > 0

\* the diff command has run and succeeded
DiffSucceeded ==
  /\ DiffReturned
  /\ git.base /\ git.branch
  /\ Len(git_log) > 0 /\ git_log[Len(git_log)] = "diff"
  /\ git.fail # RunGitCalls(git_log)

\* C15: when both refs exist and the diff command succeeds, an empty or
\* white-space diff body gives ok=true, has_changes=false and a message that
\* says there are no differences between the two refs; any other body gives
\* ok=true, has_changes=true and diff_text equal to the stripped body.
C15_DiffOutcome ==
  DiffSucceeded =>
    /\ dr.ok
    /\ Len(Strip(git.diff)) = 0 =>
         /\ ~dr.has_changes
         /\ Contains(dr.message, <<Lit("No differences between")>>)
         /\ Contains(dr.message, RefText(call.base))
         /\ Contains(dr.message, RefText(call.branch))
    /\ Len(Strip(git.diff)) > 0 =>
         /\ dr.has_changes
         /\ ~dr.diff_none
         /\ dr.diff_text = Strip(git.diff)

\* the diff body was white space only
C15_Witness ==
  /\ DiffSucceeded
  /\ git.diff = <<SP(1), NL>>
  /\ dr.ok /\ ~dr.has_changes

----------------------------------------------------------------------------
(* Properties of the prompt builders *)

\* build_pr_mega_prompt has returned its document
PrReturned == call.op = "build_pr_mega_prompt" /\ pc = "asm_done" /\ out.returned

\* the lines of the document after its last "## Diff:" heading, the END
\* DOCUMENT line left out
DiffSection(text) ==
  LET lines == TextLinesFrom(text, <<>>)
      heads == {i \in 1..Len(lines) : Len(lines[i]) > 0 /\ lines[i][1] = Lit("## Diff:")}
      h == CHOOSE i \in heads : \A k \in heads : k <= i
  IN IF heads = {} THEN <<>> ELSE SubSeq(lines, h + 1, Len(lines) - 1)

\* how many of the lines are equal to line
CountLines(lines, line) == Cardinality({i \in 1..Len(lines) : lines[i] = line})

\* C16: the document of build_pr_mega_prompt has one diff section: a block
\* fenced as diff with the raw diff text exactly when the DiffResult is ok and
\* has changes, otherwise a block fenced as text with the message of the
\* DiffResult and no block fenced as diff; the document holds the template
\* text and the snapshot.
C16_OneDiffSection ==
  PrReturned =>
    LET sec == DiffSection(out.text)
        shown == dr.ok /\ dr.has_changes
    IN /\ Len(sec) >= 3
       /\ sec[Len(sec)] = <<FENCE>>
       /\ sec[1] = (IF shown THEN <<FENCE, Lit("diff")>> ELSE <<FENCE, Lit("text")>>)
       /\ shown => JoinLines(SubSeq(sec, 2, Len(sec) - 1)) = dr.diff_text
       /\ ~shown => Len(sec) = 3 /\ Len(dr.message) > 0 /\ Contains(sec[2], dr.message)
       /\ CountLines(sec, <<FENCE, Lit("diff")>>) = (IF shown THEN 1 ELSE 0)
       /\ CountLines(sec, <<FENCE, Lit("text")>>) = (IF shown THEN 0 ELSE 1)
       /\ TextLinesFrom(out.text, <<>>)[Len(TextLinesFrom(out.text, <<>>))] = <<END_DOCUMENT>>
       /\ Contains(out.text, PromptText(PROMPT_FILES["pr_long_context"]))
       /\ Contains(out.text, snapshot)

\* the two branches do not differ: the block is fenced as text
C16_Witness ==
  /\ PrReturned
  /\ dr.ok /\ ~dr.has_changes
  /\ DiffSection(out.text)[1] = <<FENCE, Lit("text")>>
  /\ Contains(DiffSection(out.text)[2], <<Lit("No differences between")>>)

\* build_single_branch_prompt was called with a registered name and has ended
SingleEnded ==
  /\ call.op = "build_single_branch_prompt"
  /\ call.name \in DOMAIN PROMPT_FILES
  /\ pc \in {"asm_done", "asm_raised"}

\* the places of the text where the item stands
Places(t, item) == {i \in 1..Len(t) : t[i] = item}

\* C17: for every registered template name and every snapshot text the text of
\* build_single_branch_prompt holds the template text, exactly one BEGIN
\* DOCUMENT marker, exactly one END DOCUMENT marker and, between the two, the
\* whole snapshot text, in that order.
C17_SingleBranchDocument ==
  SingleEnded =>
    /\ out.returned
    /\ Cardinality(Places(out.text, BEGIN_DOCUMENT)) = 1
    /\ Cardinality(Places(out.text, END_DOCUMENT)) = 1
    /\ LET b == CHOOSE i \in Places(out.text, BEGIN_DOCUMENT) : TRUE
           e == CHOOSE i \in Places(out.text, END_DOCUMENT) : TRUE
       IN /\ b < e
          /\ Contains(SubSeq(out.text, 1, b - 1), PromptText(PROMPT_FILES[call.name]))
          /\ Contains(SubSeq(out.text, b + 1, e - 1), call.text)

\* build_document_body has returned
BodyReturned == call.op = "build_document_body" /\ pc = "asm_done" /\ out.returned

\* one string of the text holds the code points
HoldsCodes(t, cs) == \E i \in 1..Len(t) : t[i].c = "str" /\ Contains(t[i].p, cs)

\* the text has a line that cites a source path
HasSourceLine(t) ==
  \E i \in 1..Len(TextLinesFrom(t, <<>>)) :
    /\ Len(TextLinesFrom(t, <<>>)[i]) > 0
    /\ TextLinesFrom(t, <<>>)[i][1] = Lit("_Source: '")

\* the branch headings of the text, in order
BranchHeadings(t) ==
  SelectSeq(TextLinesFrom(t, <<>>),
            LAMBDA l : Len(l) = 5 /\ l[1] = Lit("#") /\ l[5] = Lit("branch content"))

\* every branch of the mapping has its heading followed by its snapshot text,
\* once each, in the order of the mapping
BranchSections(t, items) ==
  /\ BranchHeadings(t) = [i \in 1..Len(items) |-> BranchHeading(items[i].name)]
  /\ \A i \in 1..Len(items) :
       Contains(t, BranchHeading(items[i].name) \o <<NL, NL>> \o items[i].md)

\* "no specification was provided"
PlaceholderLower == <<110, 111, 32, 115, 112, 101, 99, 105, 102, 105, 99, 97, 116, 105, 111, 110, 32, 119, 97, 115, 32, 112, 114, 111, 118, 105, 100, 101, 100>>
\* "No specification was provided"
PlaceholderAsWritten == <<78, 111, 32, 115, 112, 101, 99, 105, 102, 105, 99, 97, 116, 105, 111, 110, 32, 119, 97, 115, 32, 112, 114, 111, 118, 105, 100, 101, 100>>

\* C18 as stated: with an empty or white-space spec_content the text of
\* build_document_body holds the literal "no specification was provided" and
\* no source-path line, with or without spec_path, and every branch of the
\* mapping has its heading "# <branch> branch content" followed by its
\* snapshot text, once each, in the order of the mapping.
C18_PlaceholderLiteral ==
  BodyReturned =>
    /\ Len(Strip(call.spec_content)) = 0 =>
         /\ HoldsCodes(out.text, PlaceholderLower)
         /\ ~HasSourceLine(out.text)
    /\ BranchSections(out.text, call.branch_markdown)

\* C18 as amended: the same, the placeholder being the literal "No
\* specification was provided", with a capital N.
C18_PlaceholderAsWritten ==
  BodyReturned =>
    /\ Len(Strip(call.spec_content)) = 0 =>
         /\ HoldsCodes(out.text, PlaceholderAsWritten)
         /\ ~HasSourceLine(out.text)
    /\ BranchSections(out.text, call.branch_markdown)

\* a white-space specification with a spec_path, and two branches
C18_Witness ==
  /\ BodyReturned
  /\ call.spec_content = <<SP(1), NL>>
  /\ call.spec_path = SpecPath
  /\ Len(call.branch_markdown) = 2
  /\ Len(BranchHeadings(out.text)) = 2

\* the call of build_branch_comparison_prompt has ended
CompareEnded ==
  /\ call.op = "build_branch_comparison_prompt"
  /\ pc \in {"asm_done", "asm_raised"}

\* C19: build_branch_comparison_prompt(spec_path, spec_content,
\* branch_snapshots) returns a text with the branch_comparison template, a
\* sentence that lists exactly the branch names of the mapping ("None" when it
\* is empty) and the document body of build_document_body for the same
\* arguments between the BEGIN DOCUMENT and END DOCUMENT markers.
C19_ComparisonPrompt ==
  CompareEnded =>
    LET names == [i \in 1..Len(call.branch_markdown) |-> call.branch_markdown[i].name]
        body == build_document_body(call.spec_path, call.spec_content, call.branch_markdown)
    IN /\ out.returned
       /\ Contains(out.text, Strip(PromptText(PROMPT_FILES["branch_comparison"])))
       /\ Contains(out.text, <<Lit("The branches to compare are:"), SP(1)>>
                               \o BranchesDisplay(names) \o <<Lit(".")>>)
       /\ Contains(out.text, <<BEGIN_DOCUMENT, NL>> \o RStrip(body) \o <<NL, END_DOCUMENT>>)
       /\ BranchSections(out.text, call.branch_markdown)

\* a call whose template name is not registered has ended
UnknownNameEnded ==
  /\ call.op \in {"build_single_branch_prompt", "load_prompt"}
  /\ call.name \notin DOMAIN PROMPT_FILES
  /\ pc # "call"

\* C20: load_prompt raises the not-found error for a name that is not
\* registered and opens no file; a prompt builder given such a name raises it
\* before any git command is run and returns no document; for a registered
\* name the error is not raised, and build_pr_mega_prompt has loaded its
\* template before its first git command.
C20_UnknownTemplate ==
  /\ UnknownNameEnded =>
       /\ pc = "asm_raised"
       /\ out = RaisedOut("KeyError")
       /\ opened = <<>>
       /\ git_log = <<>>
  /\ out.exc = "KeyError" => UnknownNameEnded
  /\ (call.op = "build_pr_mega_prompt" /\ Len(git_log) > 0) =>
       opened = <<PROMPT_FILES["pr_long_context"]>>

\* "architecture_report" is not a registered name
C20_Witness ==
  /\ UnknownNameEnded
  /\ call.name = "architecture_report"
  /\ out.exc = "KeyError"
  /\ opened = <<>>

----------------------------------------------------------------------------
(* Properties of the template registry and of the report builders *)

\* the logical names the registry is said to hold, each with the name it is
\* said to share its text with
ListedNames ==
  {"branch_comparison", "arch_deep_dive", "architecture_report",
   "feature_security_analysis", "feature_security_modernization", "pr_long_context"}
AliasOf(name) ==
  CASE name = "architecture_report" -> "arch_deep_dive"
    [] name = "arch_deep_dive" -> "architecture_report"
    [] name = "feature_security_modernization" -> "feature_security_analysis"
    [] name = "feature_security_analysis" -> "feature_security_modernization"
    [] OTHER -> name

\* load_prompt was called on its own and has ended
LoadEnded == call.op = "load_prompt" /\ pc # "call"

\* C21: every listed logical name resolves: load_prompt returns a text and
\* does not raise the not-found error, and the two names of a pair
\* (arch_deep_dive / architecture_report, feature_security_analysis /
\* feature_security_modernization) resolve to the same text.
C21_ListedNamesResolve ==
  (LoadEnded /\ call.name \in ListedNames) =>
    /\ out.returned
    /\ out.exc # "KeyError"
    /\ out.text = load_prompt(AliasOf(call.name), <<>>).text

\* build_architecture_report or build_feature_security_report was called on
\* a repository whose git commands succeed, and the call has ended
ReportEnded ==
  /\ call.op \in {"build_architecture_report", "build_feature_security_report"}
  /\ git.fail = 0
  /\ pc \in {"asm_done", "asm_raised"}

\* the template each report is said to be built with
ReportTemplate ==
  IF call.op = "build_architecture_report" THEN "architecture_report"
  ELSE "feature_security_modernization"

\* C22: build_architecture_report builds its document with the template
\* named architecture_report and build_feature_security_report with the
\* template named feature_security_modernization; each takes one snapshot of
\* the branch and returns the template's text followed by the wrapped snapshot.
C22_ReportTemplates ==
  ReportEnded =>
    /\ out.returned
    /\ asked = <<ReportTemplate>>
    /\ git_log = <<"fetch", "checkout">>
    /\ out.text = JoinLines(<< Strip(PromptText(opened[1])), <<>>, <<BEGIN_DOCUMENT>>,
                               RStrip(snapshot), <<END_DOCUMENT>> >>)

----------------------------------------------------------------------------
(* The terminal layer: slugs, selection from a list, the clipboard *)

\* the most lines the user types into one prompt loop
MaxLines == 2

\* how many times run_compare is run for the same branch
MaxRuns == 2

\* the values a function returns: None, a string, a bool
PyNone == [kind |-> "None", s |-> <<>>, b |-> FALSE]
PyStr(s) == [kind |-> "str", s |-> s, b |-> FALSE]
PyBool(b) == [kind |-> "bool", s |-> <<>>, b |-> b]

\* a message on the terminal, with the text it ends with
Msg(m) == [msg |-> m, arg |-> <<>>]
MsgArg(m, a) == [msg |-> m, arg |-> a]

\* str.replace(old, new) with one-character strings
Replace(s, old, new) == [i \in 1..Len(s) |-> IF s[i] = old THEN new ELSE s[i]]

\* the mutant of slugify_branch_name: the colon is kept
slugify_branch_name_KeepColon(branch_name) ==
  Replace(Replace(Replace(Replace(branch_name, 47, 95), 32, 95), 35, 95), 92, 95)

\* slugify_branch_name(branch_name): "/", " ", "#", "\" and ":" become "_"
slugify_branch_name(branch_name) ==
  Replace(Replace(Replace(Replace(Replace(branch_name, 47, 95), 32, 95), 35, 95), 92, 95),
          58, 95)

\* f"branch_{branch_slug}.md"
BranchFileName(branch_slug) ==
  <<98, 114, 97, 110, 99, 104, 95>> \o branch_slug \o <<46, 109, 100>>

\* str.strip() on a string of code points
StripCodes(s) == LStripCodes(RStripCodes(s))

\* str.isdigit() on a string of ASCII characters
IsDigit(s) == Len(s) > 0 /\ \A i \in 1..Len(s) : s[i] \in 48..57

\* int(s) for a string of decimal digits
RECURSIVE IntOf(_)
IntOf(s) ==
  IF Len(s) = 0 THEN 0
  ELSE 10 * IntOf(SubSeq(s, 1, Len(s) - 1)) + (s[Len(s)] - 48)

\* one turn of the loop of select_branch in multi_codex.py, on the line read
legacy_select_branch(branches, raw) ==
  LET choice == StripCodes(raw)
  IN IF Len(choice) = 0 THEN [returned |-> TRUE, value |-> PyNone, message |-> ""]
     ELSE IF IsDigit(choice)
     THEN (IF 1 <= IntOf(choice) /\ IntOf(choice) <= Len(branches)
           THEN [returned |-> TRUE, value |-> PyStr(branches[IntOf(choice)]), message |-> ""]
           ELSE [returned |-> FALSE, value |-> PyUnset,
                 message |-> "Invalid branch number. Please choose a listed option."])
     ELSE IF \E i \in 1..Len(branches) : branches[i] = choice
     THEN [returned |-> TRUE, value |-> PyStr(choice), message |-> ""]
     ELSE [returned |-> FALSE, value |-> PyUnset,
           message |-> "Branch not recognized. Enter a listed number or an exact branch name."]

\* one turn of the loop of choose_from_list in multi_codex.py, on the line read
legacy_choose_from_list(options, line) ==
  LET raw == StripCodes(line)
  IN IF ~IsDigit(raw)
     THEN [returned |-> FALSE, value |-> PyUnset, message |-> "Please enter a valid number."]
     ELSE IF 1 <= IntOf(raw) /\ IntOf(raw) <= Len(options)
     THEN [returned |-> TRUE, value |-> PyStr(options[IntOf(raw)]), message |-> ""]
     ELSE [returned |-> FALSE, value |-> PyUnset,
           message |-> "Choice out of range. Please try again."]

\* what the terminal sends for the arrow keys: ESC [ A and ESC [ B
ArrowUp == <<27, 91, 65>>
ArrowDown == <<27, 91, 66>>

\* questionary.select(message, choices).ask() on the keys typed before Enter:
\* the first choice is highlighted, an arrow key moves the highlight and wraps
\* around, any other key is ignored, Enter returns the highlighted value
questionary_select(choices, line) ==
  choices[IF line = ArrowDown THEN (1 % Len(choices)) + 1
          ELSE IF line = ArrowUp THEN Len(choices)
          ELSE 1]

\* select_branch of ui.py past its test of the list: the branches and Cancel
select_branch(branches, line) ==
  questionary_select([i \in 1..(Len(branches) + 1) |->
                        IF i <= Len(branches) THEN PyStr(branches[i]) ELSE PyNone], line)

\* the functions and classes ui.py defines
UI_NAMES ==
  {"MenuAction", "BranchSpec", "print_banner", "print_section", "show_thinking",
   "print_status", "display_intro", "prompt_repo_url", "ensure_local_clone",
   "copy_to_clipboard", "ask_yes_no", "select_branch", "prompt_for_branch_selection",
   "prompt_for_project_spec", "print_saved_file", "monitor_branches",
   "compute_token_count", "warn_if_large", "save_and_notify", "prepare_repository",
   "run_architecture", "run_compare", "run_pr_review", "run_feature_security",
   "choose_action", "launch_interactive", "main"}

\* ui.<name>: the attribute lookup in the module
UiAttribute(name) == IF name \in UI_NAMES THEN "" ELSE "AttributeError"

\* str.startswith(prefix)
StartsWith(s, prefix) ==
  Len(s) >= Len(prefix) /\ SubSeq(s, 1, Len(prefix)) = prefix

\* sys.platform: "darwin", "win32", "linux", "cygwin"
PlatformDarwin == <<100, 97, 114, 119, 105, 110>>
PlatformWin32 == <<119, 105, 110, 51, 50>>
PlatformLinux == <<108, 105, 110, 117, 120>>
PlatformCygwin == <<99, 121, 103, 119, 105, 110>>
Platforms == {PlatformDarwin, PlatformWin32, PlatformLinux, PlatformCygwin}

\* the clipboard tools shutil.which looks for
Tools == {"pbcopy", "clip", "wl-copy", "xclip"}

\* subprocess.run(argv, input=text, text=True, check=True) inside
\* try/except CalledProcessError: True, or False when the command exits with failure
RunClip(argv, failing) == [commands |-> <<argv>>, value |-> PyBool(argv[1] \notin failing)]
\* return False with no command run
NotRun == [commands |-> <<>>, value |-> PyBool(FALSE)]

\* the mutant of copy_to_clipboard: on Linux a failing wl-copy is followed by xclip
copy_to_clipboard_Fallback(platform, installed, failing) ==
  IF platform = PlatformDarwin
  THEN (IF "pbcopy" \notin installed THEN NotRun ELSE RunClip(<<"pbcopy">>, failing))
  ELSE IF StartsWith(platform, <<119, 105, 110>>)
  THEN (IF "clip" \notin installed THEN NotRun ELSE RunClip(<<"clip">>, failing))
  ELSE IF StartsWith(platform, PlatformLinux)
  THEN (IF "wl-copy" \in installed /\ "wl-copy" \notin failing
        THEN RunClip(<<"wl-copy">>, failing)
        ELSE IF "xclip" \in installed
        THEN [commands |-> (IF "wl-copy" \in installed THEN <<<<"wl-copy">>>> ELSE <<>>)
                            \o <<<<"xclip", "-selection", "clipboard">>>>,
              value |-> PyBool("xclip" \notin failing)]
        ELSE IF "wl-copy" \in installed THEN RunClip(<<"wl-copy">>, failing)
        ELSE NotRun)
  ELSE NotRun

\* copy_to_clipboard(text) on a platform with the tools installed, some of
\* which exit with failure
copy_to_clipboard(platform, installed, failing) ==
  IF platform = PlatformDarwin
  THEN (IF "pbcopy" \notin installed THEN NotRun ELSE RunClip(<<"pbcopy">>, failing))
  ELSE IF StartsWith(platform, <<119, 105, 110>>)
  THEN (IF "clip" \notin installed THEN NotRun ELSE RunClip(<<"clip">>, failing))
  ELSE IF StartsWith(platform, PlatformLinux)
  THEN (IF "wl-copy" \in installed THEN RunClip(<<"wl-copy">>, failing)
        ELSE IF "xclip" \in installed
        THEN RunClip(<<"xclip", "-selection", "clipboard">>, failing)
        ELSE NotRun)
  ELSE NotRun

\* "Fix/A b", "a#b:c", "x\y", "Dev"
SlugNames ==
  { BranchName, <<70, 105, 120, 47, 65, 32, 98>>, <<97, 35, 98, 58, 99>>,
    <<120, 92, 121>>, <<68, 101, 118>> }

\* the lists offered, and the lines the user types: nothing, "1", "2", "3",
\* "dev", "zz", and the arrow keys
UiBranchLists == {<<>>, <<BranchName>>, <<BranchName, BaseName>>}
TypedLines ==
  {<<>>, <<49>>, <<50>>, <<51>>, BaseName, <<122, 122>>, ArrowDown, ArrowUp}
TypedInputs == {s \in SeqsUpTo(TypedLines, MaxLines) : Len(s) > 0}

ListOps ==
  {"ui.select_branch", "ui.choose_from_list", "legacy.select_branch",
   "legacy.choose_from_list"}

UiCalls ==
  {[op |-> "run_compare", branch |-> n] : n \in SlugNames}
  \cup {[op |-> o, branches |-> bs, lines |-> ls] :
          o \in ListOps, bs \in UiBranchLists, ls \in TypedInputs}
  \cup UNION {{[op |-> "copy_to_clipboard", platform |-> pf, installed |-> ins, failing |-> f] :
                 f \in SUBSET ins, pf \in Platforms} : ins \in SUBSET Tools}

InitUi ==
  /\ call \in UiCalls
  /\ pc = "ui_call"
  /\ git = [fail |-> 0] /\ git_log = <<>> /\ opened = <<>> /\ dr = [none |-> TRUE]
  /\ out = NoResult /\ asked = <<>>
  /\ UiIdle /\ RemoteIdle /\ MonIdle /\ RepoIdle
  /\ TreeIdle /\ ReadIdle /\ WalkIdle

\* what no function of the terminal layer modelled here touches
uiRest ==
  <<call, git, git_log, opened, dr, asked, treeVars, readVars, walkVars,
    remoteVars, monVars, repoVars>>

\* run_compare, the body of its loop past the snapshot: the snapshot of the
\* branch is written to branch_<slug>.md; the run is repeated
SaveBranchMarkdown ==
  /\ pc = "ui_call"
  /\ call.op = "run_compare"
  /\ Len(printed) < MaxRuns
  /\ LET branch_slug == slugify_branch_name(call.branch)
     IN /\ value' = PyStr(branch_slug)
        /\ folder' = folder \cup {BranchFileName(branch_slug)}
        /\ printed' = Append(printed, MsgArg("Branch markdown saved",
                                             BranchFileName(branch_slug)))
  /\ pc' = IF Len(printed) + 1 = MaxRuns THEN "ui_done" ELSE "ui_call"
  /\ UNCHANGED <<out, input_reads, commands, uiRest>>

\* select_branch of ui.py
UiSelectBranch ==
  /\ pc = "ui_call"
  /\ call.op = "ui.select_branch"
  /\ IF Len(call.branches) = 0
     THEN /\ out' = RaisedOut("ValueError")
          /\ pc' = "ui_raised"
          /\ UNCHANGED <<input_reads, printed, value>>
     ELSE /\ printed' = Append(printed, Msg("Branch Selection"))
          /\ input_reads' = 1
          /\ value' = select_branch(call.branches, call.lines[1])
          /\ out' = ReturnedOut(<<>>)
          /\ pc' = "ui_done"
  /\ UNCHANGED <<commands, folder, uiRest>>

\* ui.choose_from_list(options, prompt), as the test calls it: the name is
\* looked up in the module
UiChooseFromList ==
  /\ pc = "ui_call"
  /\ call.op = "ui.choose_from_list"
  /\ out' = RaisedOut(UiAttribute("choose_from_list"))
  /\ pc' = IF UiAttribute("choose_from_list") # "" THEN "ui_raised" ELSE "ui_done"
  /\ UNCHANGED <<input_reads, printed, value, commands, folder, uiRest>>

\* select_branch and choose_from_list of multi_codex.py: the test of the list
LegacyEnter ==
  /\ pc = "ui_call"
  /\ call.op \in {"legacy.select_branch", "legacy.choose_from_list"}
  /\ out' = IF Len(call.branches) = 0 THEN RaisedOut("ValueError") ELSE out
  /\ pc' = IF Len(call.branches) = 0 THEN "ui_raised" ELSE "ui_prompt"
  /\ UNCHANGED <<input_reads, printed, value, commands, folder, uiRest>>

\* one turn of `while True` in select_branch or choose_from_list of
\* multi_codex.py: the list is printed, a line is read and answered
LegacyTurn ==
  /\ pc = "ui_prompt"
  /\ input_reads < Len(call.lines)
  /\ LET line == call.lines[input_reads + 1]
         turn == IF call.op = "legacy.select_branch"
                 THEN legacy_select_branch(call.branches, line)
                 ELSE legacy_choose_from_list(call.branches, line)
     IN /\ input_reads' = input_reads + 1
        /\ printed' = printed \o <<Msg("prompt")>>
                      \o (IF turn.message # "" THEN <<Msg(turn.message)>> ELSE <<>>)
        /\ value' = turn.value
        /\ out' = IF turn.returned THEN ReturnedOut(<<>>) ELSE out
        /\ pc' = IF turn.returned THEN "ui_done" ELSE "ui_prompt"
  /\ UNCHANGED <<commands, folder, uiRest>>

\* copy_to_clipboard of ui.py
CopyToClipboard ==
  /\ pc = "ui_call"
  /\ call.op = "copy_to_clipboard"
  /\ LET copied == copy_to_clipboard(call.platform, call.installed, call.failing)
     IN /\ commands' = copied.commands
        /\ value' = copied.value
  /\ out' = ReturnedOut(<<>>)
  /\ pc' = "ui_done"
  /\ UNCHANGED <<input_reads, printed, folder, uiRest>>

NextUi ==
  \/ SaveBranchMarkdown \/ UiSelectBranch \/ UiChooseFromList
  \/ LegacyEnter \/ LegacyTurn \/ CopyToClipboard

SpecUi == InitUi /\ [][NextUi]_vars

----------------------------------------------------------------------------
(* Properties of the terminal layer *)

\* the characters a slug replaces
SlugSeparators == {47, 32, 35, 92, 58}

\* the branch was saved in every run
SavedTwice == call.op = "run_compare" /\ pc = "ui_done"

\* each separator replaced by an underscore, every other character kept
Underscored(name) ==
  [i \in 1..Len(name) |-> IF name[i] \in SlugSeparators THEN 95 ELSE name[i]]

UiSelectEnded == call.op = "ui.select_branch" /\ pc \in {"ui_done", "ui_raised"}

\* the line is a number of the list
ListedNumber(line, branches) ==
  IsDigit(line) /\ 1 <= IntOf(line) /\ IntOf(line) <= Len(branches)

\* the line is the name of a branch of the list
ListedName(line, branches) == \E i \in 1..Len(branches) : branches[i] = line

\* the line lets select_branch return
Answers(line, branches) ==
  Len(line) = 0 \/ ListedNumber(line, branches) \/ ListedName(line, branches)

\* C24: for a non-empty list ui.select_branch returns None or a member of
\* the list: None on an empty line, branches[n-1] on a number n of the list,
\* the entered text when it is a branch name; any other line prints an
\* error and is followed by another prompt. An empty list raises ValueError
\* before any prompt.
C24_SelectBranch ==
  UiSelectEnded =>
    IF Len(call.branches) = 0
    THEN out.exc = "ValueError" /\ input_reads = 0 /\ printed = <<>>
    ELSE /\ out.returned
         /\ input_reads >= 1
         /\ LET line == call.lines[input_reads]
            IN /\ Answers(line, call.branches)
               /\ Len(line) = 0 => value = PyNone
               /\ ListedNumber(line, call.branches) =>
                    value = PyStr(call.branches[IntOf(line)])
               /\ (~IsDigit(line) /\ ListedName(line, call.branches)) => value = PyStr(line)
         /\ \A i \in 1..(input_reads - 1) : ~Answers(call.lines[i], call.branches)

\* C25: ui.choose_from_list returns options[n-1] once the user enters a
\* number n of the list; a line that is not a number prints "Please enter a
\* valid number", a number outside the list prints "Choice out of range",
\* and the user is asked again; an empty list raises ValueError.
C25_ChooseFromList ==
  (call.op = "ui.choose_from_list" /\ pc \in {"ui_done", "ui_raised"}) =>
    IF Len(call.branches) = 0
    THEN out.exc = "ValueError"
    ELSE /\ out.returned
         /\ input_reads >= 1
         /\ ListedNumber(call.lines[input_reads], call.branches)
         /\ value = PyStr(call.branches[IntOf(call.lines[input_reads])])
         /\ \A i \in 1..(input_reads - 1) :
              /\ ~ListedNumber(call.lines[i], call.branches)
              /\ \E k \in 1..Len(printed) :
                   printed[k].msg = (IF IsDigit(call.lines[i])
                                     THEN "Choice out of range. Please try again."
                                     ELSE "Please enter a valid number.")

\* copy_to_clipboard has ended
ClipEnded == call.op = "copy_to_clipboard" /\ pc \in {"ui_done", "ui_raised"}

\* the command run was the tool, and it exited with success
RanOnly(tool) == Len(commands) = 1 /\ commands[1][1] = tool
Installed(tool) == tool \in call.installed

\* C26: copy_to_clipboard returns True only if exactly one clipboard command
\* was run and it exited with success, and False without raising otherwise;
\* it runs no command when the tool of the platform is not installed; on
\* Linux it runs wl-copy when wl-copy is installed and xclip only when
\* wl-copy is not; on macOS it runs pbcopy; a failing command gives False.
C26_Clipboard ==
  ClipEnded =>
    /\ out.returned /\ out.exc = ""
    /\ value.kind = "bool"
    /\ Len(commands) <= 1
    /\ value.b <=> (Len(commands) = 1 /\ commands[1][1] \notin call.failing)
    /\ \A i \in 1..Len(commands) : Installed(commands[i][1])
    /\ call.platform = PlatformDarwin =>
         IF Installed("pbcopy") THEN RanOnly("pbcopy") ELSE commands = <<>>
    /\ call.platform = PlatformLinux =>
         IF Installed("wl-copy") THEN RanOnly("wl-copy")
         ELSE IF Installed("xclip") THEN RanOnly("xclip")
         ELSE commands = <<>>
    /\ call.platform = PlatformCygwin => commands = <<>>

\* on Linux with both tools installed wl-copy failed: False, and xclip was not run
C26_Witness ==
  /\ ClipEnded
  /\ call.platform = PlatformLinux
  /\ call.installed = {"wl-copy", "xclip"}
  /\ "wl-copy" \in call.failing
  /\ value = PyBool(FALSE)
  /\ RanOnly("wl-copy")

----------------------------------------------------------------------------
(* monitor_branches of ui.py, and run_compare past it *)

\* the most polls (fetches) of one run of monitor_branches
MaxPolls == 3

\* the branches that come and go on origin
MonBranches == {BranchName, BaseName}

\* "HEAD", "origin/"
HeadName == <<72, 69, 65, 68>>
OriginPrefix == <<111, 114, 105, 103, 105, 110, 47>>

\* the output of `git branch -r --format %(refname:short)`, a set of lines:
\* one for each remote-tracking ref, and the symbolic ref origin/HEAD
BranchListing(refs) == {OriginPrefix \o b : b \in DOMAIN refs \cup {HeadName}}

\* line.split("/", 1)[1] for a line that holds a "/"
RECURSIVE AfterSlash(_)
AfterSlash(line) ==
  IF Len(line) = 0 THEN <<>>
  ELSE IF line[1] = 47 THEN Tail(line)
  ELSE AfterSlash(Tail(line))

\* get_remote_branch_names on the lines git printed
get_remote_branch_names(output) ==
  {AfterSlash(StripCodes(line)) :
     line \in {l \in output : Len(StripCodes(l)) > 0 /\ StartsWith(StripCodes(l), OriginPrefix)}}
  \ {HeadName}

\* sorted(a set of names)
SortedSet(S) == SortedNames(CHOOSE q \in Orderings(S) : TRUE)

\* the mutant of NewBranches: every branch of the poll is taken as new
NewBranches_All(remote, seen) == SortedSet(remote)

\* new_branches = sorted(remote_branches - seen_branches)
NewBranches(remote, seen) == SortedSet(remote \ seen)

\* selected[branch] = BranchSpec(name=branch), on the keys of the dict
PutKey(keys, k) ==
  IF \E i \in 1..Len(keys) : keys[i] = k THEN keys ELSE Append(keys, k)

\* the dict returned, by its keys
PyDict(keys) == [kind |-> "dict", s |-> keys, b |-> FALSE]

\* one entry of the history: a poll (yes: the fetch succeeded; remote: the
\* branches it found), a question about a branch and its answer, a start
\* question and its answer, or Ctrl+C; with seen_branches and selected as
\* they were when it happened
Event(kind, branch, yes, remote) ==
  [kind |-> kind, branch |-> branch, yes |-> yes, remote |-> remote,
   seen |-> seen_branches, selected |-> selected]

\* the polls made so far
Polls == Len(SelectSeq(events, LAMBDA e : e.kind = "poll"))

InitMonitor ==
  /\ call = [op |-> "run_compare"]
  /\ pc = "mon_fetch"
  /\ origin \in UNION {[S -> {1}] : S \in SUBSET MonBranches}
  /\ tracking = NoRefs
  /\ MonIdle
  /\ git = [fail |-> 0] /\ git_log = <<>> /\ opened = <<>> /\ dr = [none |-> TRUE]
  /\ out = NoResult /\ asked = <<>>
  /\ UiIdle /\ RepoIdle
  /\ TreeIdle /\ ReadIdle /\ WalkIdle

\* what monitor_branches does not touch
monRest ==
  <<call, git, git_log, opened, dr, asked, treeVars, readVars, walkVars,
    input_reads, printed, commands, folder, repoVars>>

MonitorRuns == pc \in {"mon_fetch", "mon_list", "mon_add", "mon_start", "mon_sleep"}

\* a branch is pushed to origin or deleted there while the monitor runs
OriginChanges ==
  /\ MonitorRuns
  /\ \E S \in SUBSET MonBranches :
       /\ S # DOMAIN origin
       /\ origin' = [b \in S |-> 1]
  /\ UNCHANGED <<pc, tracking, monVars, out, value, monRest>>

\* await asyncio.to_thread(core.run_git, repo_path, ["fetch", "origin", "--prune"])
FetchOk ==
  /\ pc = "mon_fetch"
  /\ Polls < MaxPolls
  /\ tracking' = origin
  /\ events' = Append(events, Event("poll", <<>>, TRUE,
                                    get_remote_branch_names(BranchListing(origin))))
  /\ pc' = "mon_list"
  /\ UNCHANGED <<origin, seen_branches, selected, remote_branches, new_branches,
                 out, value, monRest>>

\* the fetch raises: `except Exception`, to the sleep, and `continue`
FetchFails ==
  /\ pc = "mon_fetch"
  /\ Polls < MaxPolls
  /\ events' = Append(events, Event("poll", <<>>, FALSE, {}))
  /\ pc' = "mon_sleep"
  /\ UNCHANGED <<origin, tracking, seen_branches, selected, remote_branches, new_branches,
                 out, value, monRest>>

\* remote_branches = core.get_remote_branch_names(repo_path), new_branches
ListBranches ==
  /\ pc = "mon_list"
  /\ remote_branches' = get_remote_branch_names(BranchListing(tracking))
  /\ new_branches' = NewBranches(remote_branches', seen_branches)
  /\ pc' = "mon_add"
  /\ UNCHANGED <<origin, tracking, seen_branches, selected, events, out, value, monRest>>

\* git branch -r fails: GitError is caught nowhere in monitor_branches
ListFails ==
  /\ pc = "mon_list"
  /\ out' = RaisedOut("GitError")
  /\ pc' = "mon_raised"
  /\ UNCHANGED <<origin, tracking, monVars, value, monRest>>

\* the body of `for branch in new_branches` up to the first answer
AnswerAdd ==
  /\ pc = "mon_add"
  /\ Len(new_branches) > 0
  /\ \E yes \in BOOLEAN :
       /\ selected' = IF yes THEN PutKey(selected, Head(new_branches)) ELSE selected
       /\ events' = Append(events, Event("add", Head(new_branches), yes, {}))
  /\ pc' = "mon_start"
  /\ UNCHANGED <<origin, tracking, seen_branches, remote_branches, new_branches,
                 out, value, monRest>>

\* the start question that follows either answer: yes returns selected
AnswerStart ==
  /\ pc = "mon_start"
  /\ \E yes \in BOOLEAN :
       /\ events' = Append(events, Event("start", Head(new_branches), yes, {}))
       /\ pc' = IF yes THEN "mon_returned" ELSE "mon_add"
       /\ value' = IF yes THEN PyDict(selected) ELSE value
       /\ out' = IF yes THEN ReturnedOut(<<>>) ELSE out
       /\ new_branches' = IF yes THEN new_branches ELSE Tail(new_branches)
  /\ UNCHANGED <<origin, tracking, seen_branches, selected, remote_branches, monRest>>

\* after the for loop: seen_branches = remote_branches, then the sleep
AfterOffers ==
  /\ pc = "mon_add"
  /\ Len(new_branches) = 0
  /\ seen_branches' = remote_branches
  /\ pc' = "mon_sleep"
  /\ UNCHANGED <<origin, tracking, selected, remote_branches, new_branches, events,
                 out, value, monRest>>

\* await asyncio.sleep(POLL_INTERVAL_SECONDS) ends: the next turn of `while True`
Sleep ==
  /\ pc = "mon_sleep"
  /\ pc' = "mon_fetch"
  /\ UNCHANGED <<origin, tracking, monVars, out, value, monRest>>

\* Ctrl+C while the coroutine waits in an await (the fetch, the sleep) or in
\* a question: under asyncio.run the KeyboardInterrupt is raised by
\* asyncio.run in run_compare, and typer.confirm turns it into Abort;
\* `except KeyboardInterrupt` of monitor_branches is not reached
InterruptEscapes ==
  /\ MonitorRuns
  /\ events' = Append(events, Event("interrupt", <<>>, FALSE, {}))
  /\ out' = RaisedOut(IF pc \in {"mon_add", "mon_start"} THEN "Abort" ELSE "KeyboardInterrupt")
  /\ pc' = "mon_raised"
  /\ UNCHANGED <<origin, tracking, seen_branches, selected, remote_branches, new_branches,
                 value, monRest>>

\* Ctrl+C while the coroutine itself runs (git branch -r), on an interpreter
\* whose asyncio.run keeps the default SIGINT handler (before 3.11): the
\* KeyboardInterrupt is raised inside the try and selected is returned
InterruptCaught ==
  /\ pc = "mon_list"
  /\ events' = Append(events, Event("interrupt", <<>>, TRUE, {}))
  /\ value' = PyDict(selected)
  /\ out' = ReturnedOut(<<>>)
  /\ pc' = "mon_returned"
  /\ UNCHANGED <<origin, tracking, seen_branches, selected, remote_branches, new_branches,
                 monRest>>

\* run_compare past asyncio.run(monitor_branches(repo_path)): with nothing
\* selected it returns, else it goes on to the snapshots
RunCompareGoesOn ==
  /\ pc = "mon_returned"
  /\ pc' = IF Len(value.s) = 0 THEN "rc_stopped" ELSE "rc_snapshots"
  /\ UNCHANGED <<origin, tracking, monVars, out, value, monRest>>

NextMonitor ==
  \/ OriginChanges \/ FetchOk \/ FetchFails \/ ListBranches \/ ListFails
  \/ AnswerAdd \/ AnswerStart \/ AfterOffers \/ Sleep
  \/ InterruptEscapes \/ InterruptCaught \/ RunCompareGoesOn

SpecMonitor == InitMonitor /\ [][NextMonitor]_vars

----------------------------------------------------------------------------
(* Properties of monitor_branches *)

\* the places of the history that hold an event of the kind
EventsOf(kind) == {i \in 1..Len(events) : events[i].kind = kind}

\* the branches the user accepted, and the branches some poll found on origin
Accepted == {events[i].branch : i \in {j \in EventsOf("add") : events[j].yes}}
Reported == UNION {events[i].remote : i \in EventsOf("poll")}

\* the keys of the dict returned
ReturnedKeys == {value.s[i] : i \in 1..Len(value.s)}

\* monitor_branches has returned to run_compare
MonitorReturned == pc \in {"mon_returned", "rc_stopped", "rc_snapshots"}

\* C27: monitor_branches returns right after a yes to a start question or
\* when the user interrupts with Ctrl+C, and in both cases it returns the
\* branches accepted so far, each of which some poll found on origin;
\* run_compare goes on to the snapshots with that set, or stops without a
\* snapshot or a document when the set is empty.
C27_MonitorReturns ==
  /\ MonitorReturned =>
       /\ \/ events[Len(events)].kind = "start" /\ events[Len(events)].yes
          \/ events[Len(events)].kind = "interrupt"
       /\ value.kind = "dict"
       /\ ReturnedKeys = Accepted
       /\ Accepted \subseteq Reported
  /\ EventsOf("interrupt") # {} =>
       /\ MonitorReturned
       /\ value.kind = "dict"
       /\ ReturnedKeys = Accepted
  /\ pc = "rc_stopped" => Accepted = {} /\ folder = {} /\ git_log = <<>>
  /\ pc = "rc_snapshots" => Accepted # {}

\* C29: between two offers of the same branch there is a successful poll
\* that did not find the branch on origin, so a branch found by consecutive
\* successful polls is offered once, accepted or declined; a failed fetch
\* leaves seen_branches and selected as they were, and the loop sleeps and
\* polls again.
C29_OfferedOnce ==
  /\ \A i, j \in EventsOf("add") :
       (i < j /\ events[i].branch = events[j].branch) =>
         \E k \in EventsOf("poll") :
           i < k /\ k < j /\ events[k].yes /\ events[i].branch \notin events[k].remote
  /\ \A i \in EventsOf("add") :
       \E k \in EventsOf("poll") :
         /\ k < i /\ events[k].yes /\ events[i].branch \in events[k].remote
         /\ \A n \in EventsOf("poll") : n < i => n <= k
  /\ \A i \in EventsOf("poll") :
       ~events[i].yes =>
         IF i = Len(events)
         THEN /\ seen_branches = events[i].seen
              /\ selected = events[i].selected
              /\ pc \in {"mon_sleep", "mon_fetch"}
         ELSE /\ events[i + 1].seen = events[i].seen
              /\ events[i + 1].selected = events[i].selected
              /\ events[i + 1].kind \in {"poll", "interrupt"}

\* a branch was offered, a later poll did not find it, a poll after that
\* found it and it was offered again
C29_Witness ==
  \E i, j \in EventsOf("add") :
    /\ i < j
    /\ events[i].branch = events[j].branch

----------------------------------------------------------------------------
(* The repository under collect_branch_markdown and build_pr_mega_prompt: *)
(* origin moves while the calls run                                       *)

\* the most commits of a branch
MaxCommits == 2

RepoBranches == {BranchName, BaseName}

\* the working tree of a commit: main holds a.py and dev holds B, and the
\* n-th commit of a branch holds n times "x" and a newline in its file
CommitTree(branch, commit) ==
  [q \in {IF branch = BranchName THEN <<NameAPy>> ELSE <<NameB>>} |->
     [data |-> <<Bytes("0x78", commit), Bytes("0x0A", 1)>>, fail |-> "none"]]

\* the line of the file of a commit, as a text
ContentLine(commit) == <<Chr("U+0078", commit), NL>>

\* the stdout of git diff origin/<base>...origin/<branch>: the line the
\* commit of the branch added
DiffText(commit) == <<Lit("diff --git"), NL, Lit("+"), Chr("U+0078", commit), NL>>

\* the mutant of checkout_B: a local branch that exists is not reset
checkout_B_KeepLocal(heads, refs, branch) ==
  IF branch \in DOMAIN heads THEN heads
  ELSE [b \in DOMAIN heads \cup {branch} |-> IF b = branch THEN refs[branch] ELSE heads[b]]

\* git checkout -B <branch> origin/<branch>: the local branch is created or
\* reset to the remote-tracking ref; the local branches after it
checkout_B(heads, refs, branch) ==
  [b \in DOMAIN heads \cup {branch} |-> IF b = branch THEN refs[branch] ELSE heads[b]]

\* a fresh clone: every ref at its first commit, main checked out
InitRepo ==
  /\ pc = "repo_idle"
  /\ call = [op |-> "none"]
  /\ origin = [b \in RepoBranches |-> 1]
  /\ tracking = origin
  /\ local = [b \in {BranchName} |-> 1]
  /\ worktree = [branch |-> BranchName, commit |-> 1]
  /\ at_fetch = NoRefs /\ diffed = NoCommit /\ done_calls = <<>>
  /\ git = [fail |-> 0] /\ git_log = <<>> /\ opened = <<>> /\ dr = [none |-> TRUE]
  /\ out = NoResult /\ asked = <<>>
  /\ UiIdle /\ MonIdle
  /\ TreeIdle /\ ReadIdle /\ WalkIdle

\* a push to origin, at any moment
Push ==
  /\ \E b \in RepoBranches :
       /\ origin[b] < MaxCommits
       /\ origin' = [origin EXCEPT ![b] = @ + 1]
  /\ UNCHANGED <<pc, tracking, repoVars, asmVars, walkVars, treeVars, readVars, uiVars, monVars>>

\* collect_branch_markdown or build_pr_mega_prompt is called: a first call,
\* and one more call on the same clone
StartCall ==
  /\ pc = "repo_idle"
  /\ Len(done_calls) <= 1
  /\ \E o \in {"collect_branch_markdown", "build_pr_mega_prompt"}, b \in RepoBranches,
        f \in 0..MaxGitCalls :
       /\ call' = [op |-> o, branch |-> b,
                   base |-> CHOOSE x \in RepoBranches : x # b]
       /\ git' = [fail |-> f, base |-> TRUE, branch |-> TRUE, diff |-> <<>>]
       /\ pc' = IF o = "build_pr_mega_prompt" THEN "call" ELSE "sync"
  /\ git_log' = <<>> /\ opened' = <<>> /\ asked' = <<>>
  /\ dr' = [none |-> TRUE] /\ out' = NoResult
  /\ at_fetch' = NoRefs /\ diffed' = NoCommit
  /\ fs' = <<>> /\ stack' = <<>> /\ visited' = {} /\ read_log' = <<>>
  /\ file_entries' = <<>> /\ doc_lines' = <<>> /\ snapshot' = <<>>
  /\ paths' = <<>> /\ tree_lines' = <<>> /\ tree_str' = <<>>
  /\ UNCHANGED <<origin, tracking, local, worktree, done_calls, again, prev_text,
                 readVars, uiVars, monVars>>

\* the call has ended: what it read is noted
Ended(how) ==
  Append(done_calls, [op |-> call.op, branch |-> call.branch, how |-> how,
                      commit |-> worktree.commit])

\* sync_remote_branch, the first statement of collect_branch_markdown, with
\* what its two commands do to the clone: the fetch sets the remote-tracking
\* refs to origin, the checkout resets the local branch and the working tree
RepoSync ==
  /\ pc = "sync"
  /\ LET synced == sync_remote_branch(git, git_log)
         fetched == Len(synced.log) = Len(git_log) + 2
         refs == IF fetched THEN origin ELSE tracking
         heads == IF synced.exc = "" THEN checkout_B(local, refs, call.branch) ELSE local
     IN /\ git_log' = synced.log
        /\ tracking' = refs
        /\ at_fetch' = IF fetched THEN origin ELSE at_fetch
        /\ local' = heads
        /\ worktree' = IF synced.exc = ""
                       THEN [branch |-> call.branch, commit |-> heads[call.branch]]
                       ELSE worktree
        /\ fs' = IF synced.exc = "" THEN CommitTree(call.branch, heads[call.branch]) ELSE fs
        /\ stack' = IF synced.exc = "" THEN <<<<>>>> ELSE stack
        /\ out' = IF synced.exc # "" THEN RaisedOut(synced.exc) ELSE out
        /\ pc' = IF synced.exc # "" THEN "repo_idle" ELSE "walk"
        /\ done_calls' = IF synced.exc # "" THEN Ended("raised") ELSE done_calls
  /\ UNCHANGED <<call, git, opened, dr, asked, origin, diffed,
                 visited, read_log, file_entries, doc_lines, snapshot, again, prev_text,
                 treeVars, readVars, uiVars, monVars>>

\* collect_branch_markdown returns the snapshot to its caller
RepoReturn ==
  /\ pc = "walk_done"
  /\ call.op = "collect_branch_markdown"
  /\ out' = ReturnedOut(snapshot)
  /\ done_calls' = Ended("returned")
  /\ pc' = "repo_idle"
  /\ UNCHANGED <<call, git, git_log, opened, dr, asked, remoteVars, local, worktree,
                 at_fetch, diffed, walkVars, treeVars, readVars, uiVars, monVars>>

\* build_pr_mega_prompt after the snapshot: compute_branch_diff fetches once
\* more and compares the remote-tracking refs as that fetch leaves them
RepoFinishPr ==
  /\ pc = "walk_done"
  /\ call.op = "build_pr_mega_prompt"
  /\ LET fetched == git.fail # RunGitCalls(git_log) + 1
         refs == IF fetched THEN origin ELSE tracking
         g == [git EXCEPT !.diff = DiffText(refs[call.branch])]
         d == compute_branch_diff(g, git_log, call.branch, call.base)
     IN /\ git' = g
        /\ git_log' = d.log
        /\ tracking' = refs
        /\ dr' = d.dr
        /\ diffed' = IF d.dr.ok THEN [branch |-> call.branch, commit |-> refs[call.branch]]
                     ELSE diffed
        /\ out' = IF d.exc # "" THEN RaisedOut(d.exc)
                  ELSE ReturnedOut(PrPromptText(PromptText(PROMPT_FILES["pr_long_context"]),
                                                call.branch, call.base, snapshot, d.dr))
        /\ done_calls' = Ended(IF d.exc # "" THEN "raised" ELSE "returned")
  /\ pc' = "repo_idle"
  /\ UNCHANGED <<call, opened, asked, origin, local, worktree, at_fetch,
                 walkVars, treeVars, readVars, uiVars, monVars>>

NextRepo ==
  \/ Push \/ StartCall \/ LoadPrPrompt \/ RepoSync \/ WalkDir \/ Render
  \/ RepoReturn \/ RepoFinishPr

SpecRepo == InitRepo /\ [][NextRepo]_vars

----------------------------------------------------------------------------
(* Properties of the calls on a repository whose origin moves *)

\* the commits a branch can be at
Commits == 1..MaxCommits

\* this call of collect_branch_markdown has begun to read the working tree
Reading ==
  /\ call.op \in {"collect_branch_markdown", "build_pr_mega_prompt"}
  /\ \/ pc \in {"walk", "walk_done"}
     \/ visited # {} \/ read_log # <<>> \/ snapshot # <<>>

\* the text shows the file of the commit of the branch
Shows(t, branch, commit) ==
  /\ Contains(t, <<Lit("### FILE:"), SP(1),
                   Str(IF branch = BranchName THEN NameAPy ELSE NameB), NL>>)
  /\ Contains(t, <<NL>> \o ContentLine(commit))

\* C28: every call of collect_branch_markdown fetches, then checks out the
\* local branch reset to origin/<branch_name>, and only then reads the
\* working tree; the snapshot shows the branch as origin held it at the
\* fetch of this call, and neither another branch nor another commit.
C28_SyncBeforeRead ==
  /\ Reading =>
       /\ SubSeq(git_log, 1, 2) = <<"fetch", "checkout">>
       /\ at_fetch # NoRefs
       /\ worktree = [branch |-> call.branch, commit |-> at_fetch[call.branch]]
       /\ local[call.branch] = at_fetch[call.branch]
       /\ fs = CommitTree(call.branch, at_fetch[call.branch])
  /\ (Reading /\ snapshot # <<>>) =>
       \A b \in RepoBranches, c \in Commits :
         Shows(snapshot, b, c) <=> (b = call.branch /\ c = at_fetch[call.branch])
  /\ (call.op = "collect_branch_markdown" /\ out.returned) => out.text = snapshot

\* two calls on the same branch with a push between them: the first
\* snapshot showed the first commit, the second shows the second
C28_Witness ==
  /\ Len(done_calls) = 2
  /\ done_calls[1].how = "returned" /\ done_calls[2].how = "returned"
  /\ done_calls[1].branch = done_calls[2].branch
  /\ done_calls[1].commit = 1 /\ done_calls[2].commit = 2
  /\ call.op = "collect_branch_markdown"
  /\ Shows(out.text, call.branch, 2)

\* build_pr_mega_prompt has returned a document with a diff
PrWithDiff ==
  /\ call.op = "build_pr_mega_prompt"
  /\ pc = "repo_idle"
  /\ out.returned
  /\ dr.ok

\* C30: the snapshot section and the diff section of the document of
\* build_pr_mega_prompt show the same commit of origin/<branch_name>, also
\* when origin is pushed to while the document is built.
C30_SameCommit ==
  PrWithDiff =>
    /\ diffed.commit = worktree.commit
    /\ \A c \in Commits :
         Contains(out.text, <<Lit("+"), Chr("U+0078", c)>>) =>
           Contains(out.text, <<NL>> \o ContentLine(c))

====
